---- MODULE Spec2Model ----
(***************************************************************************)
(* Portfolio valuation of the stocks API (apps/api/src/routes/stocks.ts): *)
(* the transaction ledger, calculateHoldings' replay, the SELL guard of    *)
(* addTransaction, the quote enrichment of getHoldings / getMetrics, the   *)
(* portfolio rows with their default flag, and the order of quote lookups; *)
(* the watchlist handlers of the API and the web client's watchlist store  *)
(* (apps/web/src/lib/store.ts).                                            *)
(*                                                                         *)
(* Numbers are exact rationals [n, d] (d > 0, lowest terms); the code's    *)
(* IEEE doubles agree with them up to rounding.                            *)
(***************************************************************************)
EXTENDS Integers, Sequences, FiniteSets, TLC

VARIABLES
    ledger,     \* prisma.transaction rows, in creation order
    phase,      \* calculateHoldings: "start" | "replay" | "done"
    sorted,     \* calculateHoldings: result of findMany (replay order)
    pos,        \* calculateHoldings: index of the next transaction in sorted
    acc,        \* calculateHoldings: the holdings Map, entries in insertion order
    last,       \* calculateHoldings: the last replay step (tx, existing, stored)
    result,     \* calculateHoldings: activeHoldings once returned
    pc,         \* addTransaction: position of each in-flight request
    body,       \* addTransaction: body of each in-flight request
    resp,       \* addTransaction: last status answered to each requester
    reply,      \* getHoldings / getMetrics / getPortfolio: last response
    portfolios, \* prisma.portfolio rows
    nextPid,    \* number of the next portfolio row (its id and its createdAt)
    nextTid,    \* number of the next transaction row where rows are deleted
    lookupRun,  \* one read request's quote lookups: position, calls issued
    watchlist,  \* prisma.watchlist rows, in creation order
    nextWid,    \* number of the next watchlist row (its id)
    watchReq,   \* watchlist handlers: each in-flight request and its answer
    watchlistStore, \* the client's store: items, isLoading, isInitialized
    helperRun,  \* watchlistHelpers.add / remove / clear: each call in flight
    initRun,    \* initializeWatchlist: position of each call
    fetches     \* number of times watchlistAPI.fetchWatchlist was called

vars == <<ledger, phase, sorted, pos, acc, last, result, pc, body, resp, reply,
          portfolios, nextPid, nextTid, lookupRun, watchlist, nextWid,
          watchReq, watchlistStore, helperRun, initRun, fetches>>
calcVars == <<phase, sorted, pos, acc, last, result>>
txVars == <<pc, body, resp>>
crudVars == <<portfolios, nextPid, nextTid>>
watchVars == <<watchlist, nextWid, watchReq>>
storeVars == <<watchlistStore, helperRun, initRun, fetches>>

----------------------------------------------------------------------------
(* Bounds and input sets *)

MaxTx == 2          \* longest ledger drawn as an input
MaxLedger == 3      \* longest ledger addTransaction may build
MaxQuoteTx == 2     \* longest ledger drawn as an input of the quote handlers

Symbols == {"AAPL", "MSFT"}
Types == {"BUY", "SELL"}
Quantities == {1, 2}
Prices == {1, 2}
Commissions == {0, 1}
Dates == {1, 2}
ThePortfolio == "p1"
PortfolioIds == {"p1", "p9"}      \* p9: no such portfolio for the caller

----------------------------------------------------------------------------
(* Exact arithmetic *)

Abs(x) == IF x < 0 THEN -x ELSE x

RECURSIVE GCD(_, _)
GCD(a, b) == IF b = 0 THEN a ELSE GCD(b, a % b)

Rat(n, d) ==
    LET g == GCD(Abs(n), Abs(d))
        s == IF d < 0 THEN -1 ELSE 1
    IN  IF n = 0 THEN [n |-> 0, d |-> 1]
        ELSE [n |-> s * (n \div g), d |-> s * (d \div g)]

RInt(k) == [n |-> k, d |-> 1]
Zero == RInt(0)
RAdd(x, y) == Rat(x.n * y.d + y.n * x.d, x.d * y.d)
RSub(x, y) == Rat(x.n * y.d - y.n * x.d, x.d * y.d)
RMul(x, y) == Rat(x.n * y.n, x.d * y.d)
RDiv(x, y) == Rat(x.n * y.d, x.d * y.n)
RLess(x, y) == x.n * y.d < y.n * x.d
RMax(x, y) == IF RLess(x, y) THEN y ELSE x

\* x / y * 100 as JavaScript computes it: a zero divisor gives NaN (0/0) or
\* +-Infinity, written here with d = 0
NaN == [n |-> 0, d |-> 0]
Infinity == [n |-> 1, d |-> 0]
MinusInfinity == [n |-> -1, d |-> 0]
IsFinite(x) == x.d # 0
Percent(x, y) ==
    IF y.n = 0
    THEN (IF x.n = 0 THEN NaN ELSE IF x.n > 0 THEN Infinity ELSE MinusInfinity)
    ELSE RMul(RDiv(x, y), RInt(100))

----------------------------------------------------------------------------
(* calculateHoldings *)

TxBodies ==
    [symbol : Symbols, type : Types, quantity : Quantities, price : Prices,
     commission : Commissions, transactionDate : Dates]

\* A stored row: the body plus the portfolio it belongs to and its creation id.
Row(b, pid, id) ==
    [id |-> id, portfolioId |-> pid, symbol |-> b.symbol, type |-> b.type,
     quantity |-> b.quantity, price |-> b.price, commission |-> b.commission,
     transactionDate |-> b.transactionDate]

Indices(s) == 1 .. Len(s)

\* where: { portfolioId }
OfPortfolio(rows, pid) == SelectSeq(rows, LAMBDA t : t.portfolioId = pid)

IsPermutationOf(s, rows) ==
    /\ Len(s) = Len(rows)
    /\ \A i \in Indices(rows) : \E j \in Indices(s) : s[j] = rows[i]

\* orderBy: { transactionDate: 'asc' }: rows of equal transactionDate come
\* back in an order the query does not fix.
FindManyAsc(rows, pid) ==
    LET mine == OfPortfolio(rows, pid)
        Elems == {mine[i] : i \in Indices(mine)}
    IN  {s \in [Indices(mine) -> Elems] :
            /\ IsPermutationOf(s, mine)
            /\ \A i \in Indices(s) : \A j \in Indices(s) :
                  i < j => s[i].transactionDate <= s[j].transactionDate}

EmptyAcc == [quantity |-> 0, totalCost |-> Zero]

\* holdings.get(tx.symbol) || { quantity: 0, totalCost: 0 }
MapGet(m, sym) ==
    IF \E i \in Indices(m) : m[i].symbol = sym
    THEN LET i == CHOOSE k \in Indices(m) : m[k].symbol = sym
         IN  [quantity |-> m[i].quantity, totalCost |-> m[i].totalCost]
    ELSE EmptyAcc

\* holdings.set(sym, v): a Map keeps a key's first insertion position
MapSet(m, sym, v) ==
    LET e == [symbol |-> sym, quantity |-> v.quantity, totalCost |-> v.totalCost]
    IN  IF \E i \in Indices(m) : m[i].symbol = sym
        THEN [i \in Indices(m) |-> IF m[i].symbol = sym THEN e ELSE m[i]]
        ELSE Append(m, e)

\* variant: the BUY's commission is left out of the cost basis
BuyStepNoCommission(existing, tx) ==
    [quantity |-> existing.quantity + tx.quantity,
     totalCost |-> RAdd(existing.totalCost, RInt(tx.quantity * tx.price))]

BuyStep(existing, tx) ==
    [quantity |-> existing.quantity + tx.quantity,
     totalCost |-> RAdd(existing.totalCost,
                        RInt(tx.quantity * tx.price + tx.commission))]

\* variant: the cost basis is reduced by the sale proceeds
SellStepProceeds(existing, tx) ==
    [quantity |-> existing.quantity - tx.quantity,
     totalCost |-> RMax(Zero, RSub(existing.totalCost,
                                   RInt(tx.quantity * tx.price + tx.commission)))]

\* variant: the SELL's commission is not taken from the remaining cost basis
SellStepNoCommission(existing, tx) ==
    LET avgCost == IF existing.quantity > 0
                   THEN RDiv(existing.totalCost, RInt(existing.quantity))
                   ELSE Zero
        newQuantity == existing.quantity - tx.quantity
    IN  [quantity |-> newQuantity,
         totalCost |-> RMax(Zero, RMul(avgCost, RInt(newQuantity)))]

\* variant: the quantity is floored at 0 like the cost
SellStepFloored(existing, tx) ==
    LET avgCost == IF existing.quantity > 0
                   THEN RDiv(existing.totalCost, RInt(existing.quantity))
                   ELSE Zero
        newQuantity == existing.quantity - tx.quantity
    IN  [quantity |-> IF newQuantity < 0 THEN 0 ELSE newQuantity,
         totalCost |-> RMax(Zero, RSub(RMul(avgCost, RInt(newQuantity)),
                                       RInt(tx.commission)))]

\* variant: the remaining cost is stored without Math.max(0, ...)
SellStepNoMax(existing, tx) ==
    LET avgCost == IF existing.quantity > 0
                   THEN RDiv(existing.totalCost, RInt(existing.quantity))
                   ELSE Zero
        newQuantity == existing.quantity - tx.quantity
    IN  [quantity |-> newQuantity,
         totalCost |-> RSub(RMul(avgCost, RInt(newQuantity)), RInt(tx.commission))]

SellStep(existing, tx) ==
    LET avgCost == IF existing.quantity > 0
                   THEN RDiv(existing.totalCost, RInt(existing.quantity))
                   ELSE Zero
        newQuantity == existing.quantity - tx.quantity
    IN  [quantity |-> newQuantity,
         totalCost |-> RMax(Zero, RSub(RMul(avgCost, RInt(newQuantity)),
                                       RInt(tx.commission)))]

ReplayStep(m, tx) ==
    LET existing == MapGet(m, tx.symbol)
    IN  IF tx.type = "BUY" THEN MapSet(m, tx.symbol, BuyStep(existing, tx))
        ELSE MapSet(m, tx.symbol, SellStep(existing, tx))

\* variant: the filter keeps sold-out positions
IsActiveOrZero(h) == h.quantity >= 0

IsActive(h) == h.quantity > 0

ToHolding(h) ==
    [symbol |-> h.symbol, quantity |-> h.quantity,
     averageCost |-> RDiv(h.totalCost, RInt(h.quantity)),
     totalCost |-> h.totalCost]

ActiveHoldings(m) ==
    LET kept == SelectSeq(m, IsActive)
    IN  [i \in Indices(kept) |-> ToHolding(kept[i])]

RECURSIVE Replay(_, _)
Replay(m, txs) ==
    IF txs = <<>> THEN m ELSE Replay(ReplayStep(m, Head(txs)), Tail(txs))

\* calculateHoldings on one findMany result
HoldingsOf(txs) == ActiveHoldings(Replay(<<>>, txs))

----------------------------------------------------------------------------
(* Ledgers drawn as inputs *)

\* rows is a ledger of at most MaxTx rows of ThePortfolio, ids in creation order
IsInputLedger(rows) ==
    \E n \in 0 .. MaxTx : \E f \in [1 .. n -> TxBodies] :
        rows = [i \in 1 .. n |-> Row(f[i], ThePortfolio, i)]

NoStep == [kind |-> "none"]

CalcIdle ==
    /\ phase = "start" /\ sorted = <<>> /\ pos = 1 /\ acc = <<>>
    /\ last = NoStep /\ result = <<>>

TxIdle ==
    /\ pc = [r \in {} |-> "idle"] /\ body = [r \in {} |-> 0]
    /\ resp = [r \in {} |-> 0]

CrudIdle == portfolios = {} /\ nextPid = 1 /\ nextTid = 1

LookupIdle == lookupRun = NoStep

WatchIdle ==
    /\ watchlist = <<>> /\ nextWid = 1
    /\ watchReq = [r \in {} |-> 0]

\* new Store<WatchlistState>({ items: new Set(), isLoading: false, ... })
NewStore == [items |-> {}, isLoading |-> FALSE, isInitialized |-> FALSE]

StoreIdle ==
    /\ watchlistStore = NewStore
    /\ helperRun = [c \in {} |-> 0]
    /\ initRun = [c \in {} |-> 0]
    /\ fetches = 0

----------------------------------------------------------------------------
(* SpecCalc: calculateHoldings, one replay step at a time *)

InitCalc ==
    /\ IsInputLedger(ledger)
    /\ CalcIdle
    /\ TxIdle
    /\ reply = NoStep
    /\ CrudIdle
    /\ LookupIdle
    /\ WatchIdle
    /\ StoreIdle

\* const transactions = await prisma.transaction.findMany(...)
FindMany ==
    /\ phase = "start"
    /\ \E s \in FindManyAsc(ledger, ThePortfolio) : sorted' = s
    /\ phase' = "replay"
    /\ UNCHANGED <<watchVars, storeVars,
                   crudVars, lookupRun, ledger, pos, acc, last, result, txVars, reply>>

ReplayBuy ==
    /\ phase = "replay" /\ pos <= Len(sorted)
    /\ sorted[pos].type = "BUY"
    /\ LET tx == sorted[pos]
           existing == MapGet(acc, tx.symbol)
       IN  /\ acc' = ReplayStep(acc, tx)
           /\ last' = [kind |-> "BUY", tx |-> tx, existing |-> existing,
                       stored |-> MapGet(acc', tx.symbol)]
    /\ pos' = pos + 1
    /\ UNCHANGED <<watchVars, storeVars,
                   crudVars, lookupRun, ledger, phase, sorted, result, txVars, reply>>

ReplaySell ==
    /\ phase = "replay" /\ pos <= Len(sorted)
    /\ sorted[pos].type = "SELL"
    /\ LET tx == sorted[pos]
           existing == MapGet(acc, tx.symbol)
       IN  /\ acc' = ReplayStep(acc, tx)
           /\ last' = [kind |-> "SELL", tx |-> tx, existing |-> existing,
                       stored |-> MapGet(acc', tx.symbol)]
    /\ pos' = pos + 1
    /\ UNCHANGED <<watchVars, storeVars,
                   crudVars, lookupRun, ledger, phase, sorted, result, txVars, reply>>

\* filter + map + return activeHoldings
ReturnHoldings ==
    /\ phase = "replay" /\ pos > Len(sorted)
    /\ result' = ActiveHoldings(acc)
    /\ phase' = "done"
    /\ UNCHANGED <<watchVars, storeVars,
                   crudVars, lookupRun, ledger, sorted, pos, acc, last, txVars, reply>>

NextCalc == FindMany \/ ReplayBuy \/ ReplaySell \/ ReturnHoldings

SpecCalc == InitCalc /\ [][NextCalc]_vars

----------------------------------------------------------------------------
(* SpecReplay: calculateHoldings' loop over the rows in any order at all *)

MaxReplayTx == 3    \* longest ledger replayed in SpecReplay

ReplayBodies ==
    [symbol : Symbols, type : Types, quantity : Quantities, price : {1},
     commission : {1}, transactionDate : {1}]

IsReplayLedger(rows) ==
    \E n \in 0 .. MaxReplayTx : \E f \in [1 .. n -> ReplayBodies] :
        rows = [i \in 1 .. n |-> Row(f[i], ThePortfolio, i)]

\* every arrangement of the rows of a portfolio
AnyOrder(rows, pid) ==
    LET mine == OfPortfolio(rows, pid)
        Elems == {mine[i] : i \in Indices(mine)}
    IN  {s \in [Indices(mine) -> Elems] : IsPermutationOf(s, mine)}

InitReplay ==
    /\ IsReplayLedger(ledger)
    /\ CalcIdle
    /\ TxIdle
    /\ reply = NoStep
    /\ CrudIdle
    /\ LookupIdle
    /\ WatchIdle
    /\ StoreIdle

\* the loop is handed the transactions in some order
TakeAnyOrder ==
    /\ phase = "start"
    /\ \E s \in AnyOrder(ledger, ThePortfolio) : sorted' = s
    /\ phase' = "replay"
    /\ UNCHANGED <<watchVars, storeVars,
                   crudVars, lookupRun, ledger, pos, acc, last, result, txVars, reply>>

NextReplay == TakeAnyOrder \/ ReplayBuy \/ ReplaySell \/ ReturnHoldings

SpecReplay == InitReplay /\ [][NextReplay]_vars

----------------------------------------------------------------------------
(* SpecTx: addTransaction, two clients, one database operation per step *)

Clients == {"c1", "c2"}

\* prisma.portfolio.findFirst({ where: { id, userId } }) for the caller
PortfolioFound(id) == id = ThePortfolio

\* bodies the clients send; price and commission play no part in the guard
AddBodies ==
    [symbol : Symbols, type : Types, quantity : Quantities, price : {1},
     commission : {0}, transactionDate : Dates]

NoBody == [type |-> "none"]

InFlight == {r \in Clients : pc[r] # "idle"}

\* variant: the guard only asks whether the symbol is held
InsufficientSharesNoQty(holdings, b) ==
    ~(\E i \in Indices(holdings) : holdings[i].symbol = b.symbol)

\* !holding || holding.quantity < body.quantity
InsufficientShares(holdings, b) ==
    \/ ~(\E i \in Indices(holdings) : holdings[i].symbol = b.symbol)
    \/ LET holding ==
               holdings[CHOOSE i \in Indices(holdings) : holdings[i].symbol = b.symbol]
       IN  holding.quantity < b.quantity

\* variant: a conditional write that re-checks the held quantity on insert
CreateRowGuarded(rows, b, pid) ==
    IF b.type = "SELL"
          /\ InsufficientShares(HoldingsOf(OfPortfolio(rows, pid)), b)
    THEN rows
    ELSE Append(rows, Row(b, pid, Len(rows) + 1))

\* prisma.transaction.create({ data: { portfolioId: id, ...body } })
CreateRow(rows, b, pid) == Append(rows, Row(b, pid, Len(rows) + 1))

InitTx ==
    /\ ledger = <<>>
    /\ CalcIdle
    /\ pc = [r \in Clients |-> "idle"]
    /\ body = [r \in Clients |-> NoBody]
    /\ resp = [r \in Clients |-> 0]
    /\ reply = NoStep
    /\ CrudIdle
    /\ LookupIdle
    /\ WatchIdle
    /\ StoreIdle

\* the request arrives and the portfolio is looked up
AddBegin(r) ==
    /\ pc[r] = "idle"
    /\ Len(ledger) + Cardinality(InFlight) < MaxLedger
    /\ \E id \in PortfolioIds : \E b \in AddBodies :
        IF ~PortfolioFound(id)
        THEN /\ resp' = [resp EXCEPT ![r] = 404]
             /\ body' = [body EXCEPT ![r] = NoBody]
             /\ pc' = pc
        ELSE /\ resp' = [resp EXCEPT ![r] = 0]
             /\ body' = [body EXCEPT ![r] = b]
             /\ pc' = [pc EXCEPT ![r] = IF b.type = "SELL" THEN "validate"
                                        ELSE "create"]
    /\ UNCHANGED <<watchVars, storeVars, crudVars, lookupRun, ledger, calcVars, reply>>

\* if (body.type === 'SELL'): calculateHoldings, then the comparison
AddValidate(r) ==
    /\ pc[r] = "validate"
    /\ \E s \in FindManyAsc(ledger, ThePortfolio) :
        IF InsufficientShares(HoldingsOf(s), body[r])
        THEN /\ resp' = [resp EXCEPT ![r] = 400]
             /\ pc' = [pc EXCEPT ![r] = "idle"]
        ELSE /\ resp' = resp
             /\ pc' = [pc EXCEPT ![r] = "create"]
    /\ UNCHANGED <<watchVars, storeVars,
                   crudVars, lookupRun, ledger, body, calcVars, reply>>

\* prisma.transaction.create and the 201 answer
AddCreate(r) ==
    /\ pc[r] = "create"
    /\ ledger' = CreateRow(ledger, body[r], ThePortfolio)
    /\ resp' = [resp EXCEPT ![r] = 201]
    /\ pc' = [pc EXCEPT ![r] = "idle"]
    /\ UNCHANGED <<watchVars, storeVars,
                   crudVars, lookupRun, body, calcVars, reply>>

NextTx == \E r \in Clients : AddBegin(r) \/ AddValidate(r) \/ AddCreate(r)

SpecTx == InitTx /\ [][NextTx]_vars

----------------------------------------------------------------------------
(* SpecSeq: addTransaction with requests handled one at a time *)

\* a request is taken up only when no other request is in progress
SeqBegin(r) == InFlight = {} /\ AddBegin(r)

NextSeq == \E r \in Clients : SeqBegin(r) \/ AddValidate(r) \/ AddCreate(r)

SpecSeq == InitTx /\ [][NextSeq]_vars

----------------------------------------------------------------------------
(* SpecQuote: getHoldings, getMetrics and getPortfolio against the quote source *)

QuotePrices == {0, 1, 2}          \* quote.c
PrevCloses == {0, 2}              \* quote.pc
QuoteFailed == [ok |-> FALSE, c |-> 0, pc |-> 0]
Quotes == [ok : {TRUE}, c : QuotePrices, pc : PrevCloses]
\* finnhubClient.getQuote: a quote, or a rejected promise
QuoteOutcomes == {QuoteFailed} \cup Quotes
\* what getHoldings reads of a quote (quote.c only)
PriceOutcomes == {o \in QuoteOutcomes : o.pc = 0}

QuoteBodies ==
    [symbol : Symbols, type : Types, quantity : Quantities, price : {1},
     commission : Commissions, transactionDate : {1}]

IsQuoteLedger(rows) ==
    \E n \in 0 .. MaxQuoteTx : \E f \in [1 .. n -> QuoteBodies] :
        rows = [i \in 1 .. n |-> Row(f[i], ThePortfolio, i)]

\* getHoldings' first loop: totalValue += quote.c * holding.quantity, a failed
\* lookup adds nothing
RECURSIVE TotalValueLoop(_, _, _)
TotalValueLoop(holdings, outcomes, i) ==
    IF i > Len(holdings) THEN 0
    ELSE (IF outcomes[i].ok THEN outcomes[i].c * holdings[i].quantity ELSE 0)
         + TotalValueLoop(holdings, outcomes, i + 1)

\* variant: the fallback reports no loss
EnrichFailedNoLoss(h) ==
    [symbol |-> h.symbol, quantity |-> h.quantity, averageCost |-> h.averageCost,
     currentPrice |-> Zero, totalCost |-> h.totalCost, currentValue |-> Zero,
     gainLoss |-> Zero, gainLossPercent |-> Zero, portfolioWeight |-> Zero]

EnrichFailed(h) ==
    [symbol |-> h.symbol, quantity |-> h.quantity, averageCost |-> h.averageCost,
     currentPrice |-> Zero, totalCost |-> h.totalCost, currentValue |-> Zero,
     gainLoss |-> RSub(Zero, h.totalCost), gainLossPercent |-> RInt(-100),
     portfolioWeight |-> Zero]

EnrichQuoted(h, quote, portfolioTotalValue) ==
    LET currentPrice == RInt(quote.c)
        currentValue == RMul(currentPrice, RInt(h.quantity))
        gainLoss == RSub(currentValue, h.totalCost)
    IN  [symbol |-> h.symbol, quantity |-> h.quantity,
         averageCost |-> h.averageCost, currentPrice |-> currentPrice,
         totalCost |-> h.totalCost, currentValue |-> currentValue,
         gainLoss |-> gainLoss,
         gainLossPercent |-> Percent(gainLoss, h.totalCost),
         portfolioWeight |->
             IF portfolioTotalValue > 0
             THEN RMul(RDiv(currentValue, RInt(portfolioTotalValue)), RInt(100))
             ELSE Zero]

\* enrichHoldingsWithPrices: one lookup per holding, each with its own catch
EnrichHoldingsWithPrices(holdings, outcomes, portfolioTotalValue) ==
    [i \in Indices(holdings) |->
        IF outcomes[i].ok
        THEN EnrichQuoted(holdings[i], outcomes[i], portfolioTotalValue)
        ELSE EnrichFailed(holdings[i])]

ZeroMetrics ==
    [totalValue |-> Zero, totalCost |-> Zero, totalGainLoss |-> Zero,
     totalGainLossPercent |-> Zero, dayChange |-> Zero, dayChangePercent |-> Zero]

\* calculateMetrics' loop: the running totalValue, totalCost, totalDayChange
RECURSIVE MetricsLoop(_, _, _, _)
MetricsLoop(holdings, outcomes, i, t) ==
    IF i > Len(holdings) THEN t
    ELSE LET h == holdings[i]
             o == outcomes[i]
         IN  MetricsLoop(holdings, outcomes, i + 1,
                 IF o.ok
                 THEN [totalValue |-> t.totalValue + o.c * h.quantity,
                       totalCost |-> RAdd(t.totalCost, h.totalCost),
                       totalDayChange |-> t.totalDayChange + (o.c - o.pc) * h.quantity]
                 ELSE [t EXCEPT !.totalCost = RAdd(t.totalCost, h.totalCost)])

\* variant: dayChangePercent divides whatever the previous total value is
MetricsTotalsNoDayGuard(t) ==
    LET totalGainLoss == RSub(RInt(t.totalValue), t.totalCost)
        previousTotalValue == t.totalValue - t.totalDayChange
    IN  [totalValue |-> RInt(t.totalValue),
         totalCost |-> t.totalCost,
         totalGainLoss |-> totalGainLoss,
         totalGainLossPercent |->
             IF RLess(Zero, t.totalCost) THEN Percent(totalGainLoss, t.totalCost)
             ELSE Zero,
         dayChange |-> RInt(t.totalDayChange),
         dayChangePercent |->
             Percent(RInt(t.totalDayChange), RInt(previousTotalValue))]

\* the return value of calculateMetrics after its loop
MetricsTotals(t) ==
    LET totalGainLoss == RSub(RInt(t.totalValue), t.totalCost)
        previousTotalValue == t.totalValue - t.totalDayChange
    IN  [totalValue |-> RInt(t.totalValue),
         totalCost |-> t.totalCost,
         totalGainLoss |-> totalGainLoss,
         totalGainLossPercent |->
             IF RLess(Zero, t.totalCost) THEN Percent(totalGainLoss, t.totalCost)
             ELSE Zero,
         dayChange |-> RInt(t.totalDayChange),
         dayChangePercent |->
             IF previousTotalValue > 0
             THEN Percent(RInt(t.totalDayChange), RInt(previousTotalValue))
             ELSE Zero]

\* variant: no early return, and the percentages divide without a guard
CalculateMetricsUnguarded(holdings, outcomes) ==
    LET t == MetricsLoop(holdings, outcomes, 1,
                 [totalValue |-> 0, totalCost |-> Zero, totalDayChange |-> 0])
        totalGainLoss == RSub(RInt(t.totalValue), t.totalCost)
    IN  [totalValue |-> RInt(t.totalValue),
         totalCost |-> t.totalCost,
         totalGainLoss |-> totalGainLoss,
         totalGainLossPercent |-> Percent(totalGainLoss, t.totalCost),
         dayChange |-> RInt(t.totalDayChange),
         dayChangePercent |->
             Percent(RInt(t.totalDayChange), RInt(t.totalValue - t.totalDayChange))]

\* calculateMetrics on the holdings of one findMany result
CalculateMetrics(holdings, outcomes) ==
    IF Len(holdings) = 0 THEN ZeroMetrics
    ELSE MetricsTotals(MetricsLoop(holdings, outcomes, 1,
             [totalValue |-> 0, totalCost |-> Zero, totalDayChange |-> 0]))

\* getQuote calls calculateMetrics issues
MetricsLookups(holdings) == IF Len(holdings) = 0 THEN 0 ELSE Len(holdings)

NotFound(kind) == [kind |-> kind, status |-> 404]

InitQuote ==
    /\ IsQuoteLedger(ledger)
    /\ CalcIdle
    /\ TxIdle
    /\ reply = NoStep
    /\ CrudIdle
    /\ LookupIdle
    /\ WatchIdle
    /\ StoreIdle

GetHoldings ==
    /\ reply = NoStep
    /\ \E id \in PortfolioIds :
        IF ~PortfolioFound(id) THEN reply' = NotFound("getHoldings")
        ELSE \E s \in FindManyAsc(ledger, id) :
             LET holdings == HoldingsOf(s)
             IN  \E first \in [Indices(holdings) -> PriceOutcomes] :
                 \E second \in [Indices(holdings) -> PriceOutcomes] :
                 LET totalValue == TotalValueLoop(holdings, first, 1)
                 IN  reply' =
                       [kind |-> "getHoldings", status |-> 200,
                        holdings |-> EnrichHoldingsWithPrices(holdings, second, totalValue),
                        totalValue |-> totalValue,
                        outcomes |-> second,
                        lookups |-> Len(holdings) + Len(holdings)]
    /\ UNCHANGED <<watchVars, storeVars,
                   crudVars, lookupRun, ledger, calcVars, txVars>>

GetMetrics ==
    /\ reply = NoStep
    /\ \E id \in PortfolioIds :
        IF ~PortfolioFound(id) THEN reply' = NotFound("getMetrics")
        ELSE \E s \in FindManyAsc(ledger, id) :
             LET holdings == HoldingsOf(s)
             IN  \E outcomes \in [Indices(holdings) -> QuoteOutcomes] :
                 reply' =
                   [kind |-> "getMetrics", status |-> 200,
                    metrics |-> CalculateMetrics(holdings, outcomes),
                    held |-> holdings,
                    outcomes |-> outcomes,
                    lookups |-> MetricsLookups(holdings)]
    /\ UNCHANGED <<watchVars, storeVars,
                   crudVars, lookupRun, ledger, calcVars, txVars>>

GetPortfolio ==
    /\ reply = NoStep
    /\ \E id \in PortfolioIds :
        IF ~PortfolioFound(id) THEN reply' = NotFound("getPortfolio")
        ELSE \E s \in FindManyAsc(ledger, id) :
             LET holdings == HoldingsOf(s)
             IN  \E outcomes \in [Indices(holdings) -> QuoteOutcomes] :
                 reply' =
                   [kind |-> "getPortfolio", status |-> 200,
                    metrics |-> CalculateMetrics(holdings, outcomes),
                    held |-> holdings,
                    outcomes |-> outcomes,
                    lookups |-> MetricsLookups(holdings)]
    /\ UNCHANGED <<watchVars, storeVars,
                   crudVars, lookupRun, ledger, calcVars, txVars>>

\* the response is sent; the client may ask again
Deliver ==
    /\ reply # NoStep
    /\ reply' = NoStep
    /\ UNCHANGED <<watchVars, storeVars,
                   crudVars, lookupRun, ledger, calcVars, txVars>>

NextQuote == GetHoldings \/ GetMetrics \/ GetPortfolio \/ Deliver

SpecQuote == InitQuote /\ [][NextQuote]_vars

----------------------------------------------------------------------------
(* SpecAgree: a getHoldings request followed by a getMetrics request on the  *)
(* same ledger, every symbol's lookup having the same outcome in both        *)

\* the outcome of each holding's lookup, given one outcome per symbol
OutcomesBySymbol(holdings, quoteOf) ==
    [i \in Indices(holdings) |-> quoteOf[holdings[i].symbol]]

\* getHoldings: calculateHoldings, the totalValue loop, enrichHoldingsWithPrices
AskHoldings ==
    /\ reply = NoStep
    /\ \E s \in FindManyAsc(ledger, ThePortfolio) :
       \E quoteOf \in [Symbols -> QuoteOutcomes] :
        LET holdings == HoldingsOf(s)
            outcomes == OutcomesBySymbol(holdings, quoteOf)
            totalValue == TotalValueLoop(holdings, outcomes, 1)
        IN  \* a symbol without transactions is never looked up
            /\ \A sym \in Symbols :
                  (\A k \in Indices(ledger) : ledger[k].symbol # sym)
                      => quoteOf[sym] = QuoteFailed
            /\ reply' =
                  [kind |-> "getHoldings", status |-> 200,
                   holdings |-> EnrichHoldingsWithPrices(holdings, outcomes, totalValue),
                   totalValue |-> totalValue,
                   quoteOf |-> quoteOf]
    /\ UNCHANGED <<watchVars, storeVars,
                   crudVars, lookupRun, ledger, calcVars, txVars>>

\* getMetrics: its own calculateHoldings, then calculateMetrics
AskMetrics ==
    /\ reply # NoStep /\ reply.kind = "getHoldings" /\ "quoteOf" \in DOMAIN reply
    /\ \E s \in FindManyAsc(ledger, ThePortfolio) :
        LET holdings == HoldingsOf(s)
            outcomes == OutcomesBySymbol(holdings, reply.quoteOf)
        IN  reply' =
              [kind |-> "both", status |-> 200,
               holdings |-> reply.holdings,
               metrics |-> CalculateMetrics(holdings, outcomes),
               held |-> holdings,
               quoteOf |-> reply.quoteOf]
    /\ UNCHANGED <<watchVars, storeVars,
                   crudVars, lookupRun, ledger, calcVars, txVars>>

NextAgree == AskHoldings \/ AskMetrics \/ Deliver

SpecAgree == InitQuote /\ [][NextAgree]_vars

----------------------------------------------------------------------------
(* Portfolio rows and the database calls of createPortfolio, updatePortfolio *)
(* and deletePortfolio                                                       *)

MaxPortfolios == 3      \* portfolios ever created in SpecPortfolio

Users == {"u1", "u2"}
Names == {"a", "b"}
\* an optional field: <<>> when absent (undefined), <<v>> when present
Undefined == <<>>
Some(v) == <<v>>
\* opt ?? d
OrElse(opt, d) == IF opt = Undefined THEN d ELSE opt[1]

\* CreatePortfolioSchema after parsing: isDefault is a boolean (default false)
CreateBodies == [name : Names, isDefault : BOOLEAN]

\* UpdatePortfolioSchema: every field optional
UpdateBodies ==
    [name : {Undefined} \cup {Some(n) : n \in Names},
     isDefault : {Undefined} \cup {Some(f) : f \in BOOLEAN}]

\* a prisma.portfolio row; createdAt is the creation number (rows created by
\* successive requests have increasing createdAt)
PortfolioRow(id, u, name, isDefault) ==
    [id |-> id, userId |-> u, name |-> name, isDefault |-> isDefault,
     createdAt |-> id]

PortfoliosOf(ps, u) == {p \in ps : p.userId = u}

DefaultsOf(ps, u) == {p \in ps : p.userId = u /\ p.isDefault}

\* variant: the lookup ignores the caller
FindFirstAnyUser(ps, id, u) == {p \in ps : p.id = id}

\* prisma.portfolio.findFirst({ where: { id, userId } }): {} when null
FindFirstPortfolio(ps, id, u) == {p \in ps : p.id = id /\ p.userId = u}

\* variant: no default is unset
UnsetDefaultsNone(ps, u) == ps

\* updateMany({ where: { userId, isDefault: true }, data: { isDefault: false } })
UnsetDefaults(ps, u) ==
    {IF p.userId = u /\ p.isDefault THEN [p EXCEPT !.isDefault = FALSE] ELSE p :
        p \in ps}

\* variant: the where clause leaves out userId
UnsetOtherDefaultsAllUsers(ps, u, id) ==
    {IF p.isDefault /\ p.id # id
     THEN [p EXCEPT !.isDefault = FALSE] ELSE p : p \in ps}

\* updateMany({ where: { userId, isDefault: true, id: { not: id } }, ... })
UnsetOtherDefaults(ps, u, id) ==
    {IF p.userId = u /\ p.isDefault /\ p.id # id
     THEN [p EXCEPT !.isDefault = FALSE] ELSE p : p \in ps}

\* prisma.portfolio.create({ data: { userId, name, isDefault: body.isDefault } })
InsertPortfolio(ps, u, b, id) ==
    ps \cup {PortfolioRow(id, u, b.name, b.isDefault)}

\* prisma.portfolio.update({ where: { id }, data: { name: body.name ??
\* portfolio.name, isDefault: body.isDefault ?? portfolio.isDefault } }),
\* portfolio being the row read by findFirst
UpdateRow(ps, id, b, portfolio) ==
    {IF p.id = id
     THEN [p EXCEPT !.name = OrElse(b.name, portfolio.name),
                    !.isDefault = OrElse(b.isDefault, portfolio.isDefault)]
     ELSE p : p \in ps}

\* prisma.portfolio.delete({ where: { id } }) on the portfolio rows
DeleteRow(ps, id) == {p \in ps : p.id # id}

\* variant: the most recently created portfolio becomes the default
PromoteLatest(ps, u) ==
    IF PortfoliosOf(ps, u) = {} THEN ps
    ELSE LET nextPortfolio ==
                 CHOOSE p \in PortfoliosOf(ps, u) :
                     \A q \in PortfoliosOf(ps, u) : q.createdAt <= p.createdAt
         IN  {IF p.id = nextPortfolio.id THEN [p EXCEPT !.isDefault = TRUE] ELSE p :
                 p \in ps}

\* findFirst({ where: { userId }, orderBy: { createdAt: 'asc' } }) and, if a
\* row is found, update({ where: { id }, data: { isDefault: true } })
Promote(ps, u) ==
    IF PortfoliosOf(ps, u) = {} THEN ps
    ELSE LET nextPortfolio ==
                 CHOOSE p \in PortfoliosOf(ps, u) :
                     \A q \in PortfoliosOf(ps, u) : p.createdAt <= q.createdAt
         IN  {IF p.id = nextPortfolio.id THEN [p EXCEPT !.isDefault = TRUE] ELSE p :
                 p \in ps}

\* what prisma.portfolio.delete does to the transactions of the portfolio: the
\* relation's referential action decides (cascade, leave the rows, or refuse
\* and throw); without transactions the delete simply succeeds
DeleteOutcomes(rows, id) ==
    IF OfPortfolio(rows, id) = <<>> THEN {[ok |-> TRUE, ledger |-> rows]}
    ELSE {[ok |-> TRUE, ledger |-> SelectSeq(rows, LAMBDA t : t.portfolioId # id)],
          [ok |-> TRUE, ledger |-> rows],
          [ok |-> FALSE, ledger |-> rows]}

RECURSIVE NewestFirst(_)
\* findMany({ where: { userId }, orderBy: { createdAt: 'desc' } }) on the rows S
NewestFirst(S) ==
    IF S = {} THEN <<>>
    ELSE LET p == CHOOSE x \in S : \A q \in S : q.createdAt <= x.createdAt
         IN  <<p>> \o NewestFirst(S \ {p})

\* the 404 answer of a handler that names a portfolio id
NotFoundFor(kind, u, id) ==
    [kind |-> kind, status |-> 404, userId |-> u, id |-> id]

----------------------------------------------------------------------------
(* Handlers, one request at a time (each handler runs to its answer)         *)

InitCrud ==
    /\ ledger = <<>>
    /\ CalcIdle
    /\ TxIdle
    /\ reply = NoStep
    /\ CrudIdle
    /\ LookupIdle
    /\ WatchIdle
    /\ StoreIdle

\* createPortfolio; cap bounds the portfolios ever created
CreatePortfolio(u, b, cap) ==
    /\ reply = NoStep
    /\ nextPid <= cap
    /\ LET unset == IF b.isDefault THEN UnsetDefaults(portfolios, u) ELSE portfolios
       IN  portfolios' = InsertPortfolio(unset, u, b, nextPid)
    /\ nextPid' = nextPid + 1
    /\ reply' = [kind |-> "createPortfolio", status |-> 201, userId |-> u,
                 id |-> nextPid, body |-> b]
    /\ UNCHANGED <<watchVars, storeVars,
                   nextTid, lookupRun, ledger, calcVars, txVars>>

UpdatePortfolio(u, id, b) ==
    /\ reply = NoStep
    /\ IF FindFirstPortfolio(portfolios, id, u) = {}
       THEN /\ reply' = NotFoundFor("updatePortfolio", u, id)
            /\ portfolios' = portfolios
       ELSE LET portfolio == CHOOSE p \in FindFirstPortfolio(portfolios, id, u) : TRUE
                unset == IF b.isDefault = Some(TRUE)
                         THEN UnsetOtherDefaults(portfolios, u, id)
                         ELSE portfolios
            IN  /\ portfolios' = UpdateRow(unset, id, b, portfolio)
                /\ reply' = [kind |-> "updatePortfolio", status |-> 200,
                             userId |-> u, id |-> id, body |-> b,
                             portfolio |-> portfolio]
    /\ UNCHANGED <<watchVars, storeVars,
                   nextPid, nextTid, lookupRun, ledger, calcVars, txVars>>

DeletePortfolio(u, id) ==
    /\ reply = NoStep
    /\ IF FindFirstPortfolio(portfolios, id, u) = {}
       THEN /\ reply' = NotFoundFor("deletePortfolio", u, id)
            /\ UNCHANGED <<portfolios, ledger>>
       ELSE LET portfolio == CHOOSE p \in FindFirstPortfolio(portfolios, id, u) : TRUE
            IN  \E o \in DeleteOutcomes(ledger, id) :
                IF ~o.ok
                THEN /\ reply' = [kind |-> "deletePortfolio", status |-> 500,
                                  userId |-> u, id |-> id]
                     /\ UNCHANGED <<portfolios, ledger>>
                ELSE /\ ledger' = o.ledger
                     /\ portfolios' =
                           IF portfolio.isDefault
                           THEN Promote(DeleteRow(portfolios, id), u)
                           ELSE DeleteRow(portfolios, id)
                     /\ reply' = [kind |-> "deletePortfolio", status |-> 200,
                                  userId |-> u, id |-> id,
                                  portfolio |-> portfolio]
    /\ UNCHANGED <<watchVars, storeVars,
                   nextPid, nextTid, lookupRun, calcVars, txVars>>

\* getPortfolios: the caller's rows, newest first
GetPortfolios(u) ==
    /\ reply = NoStep
    /\ reply' = [kind |-> "getPortfolios", status |-> 200, userId |-> u,
                 portfolios |-> NewestFirst(PortfoliosOf(portfolios, u))]
    /\ UNCHANGED <<watchVars, storeVars,
                   crudVars, lookupRun, ledger, calcVars, txVars>>

\* SpecPortfolio: the portfolio handlers of two users
NextPortfolio ==
    \/ \E u \in Users : \E b \in CreateBodies : CreatePortfolio(u, b, MaxPortfolios)
    \/ \E u \in Users : \E id \in 1 .. MaxPortfolios : \E b \in UpdateBodies :
          UpdatePortfolio(u, id, b)
    \/ \E u \in Users : \E id \in 1 .. MaxPortfolios : DeletePortfolio(u, id)
    \/ \E u \in Users : GetPortfolios(u)
    \/ Deliver

SpecPortfolio == InitCrud /\ [][NextPortfolio]_vars

----------------------------------------------------------------------------
(* SpecCrud: every handler of the portfolio router, one request at a time    *)

MaxCrudPortfolios == 2  \* portfolios ever created in SpecCrud
MaxCrudTx == 1          \* transactions ever created in SpecCrud

CrudBodies ==
    [symbol : {"AAPL"}, type : Types, quantity : {1}, price : {1},
     commission : {0}, transactionDate : {1}]

CrudOutcomes == {QuoteFailed, [ok |-> TRUE, c |-> 1, pc |-> 0]}

Reverse(s) == [i \in 1 .. Len(s) |-> s[Len(s) + 1 - i]]

\* findMany({ where: { portfolioId }, orderBy: { transactionDate: 'desc' } })
FindManyDesc(rows, pid) == {Reverse(s) : s \in FindManyAsc(rows, pid)}

\* variant: the transaction is looked up by its id alone
FindFirstTransactionAnyPortfolio(rows, tid, pid) ==
    {i \in Indices(rows) : rows[i].id = tid}

\* prisma.transaction.findFirst({ where: { id: transactionId, portfolioId: id } })
FindFirstTransaction(rows, tid, pid) ==
    {i \in Indices(rows) : rows[i].id = tid /\ rows[i].portfolioId = pid}

\* prisma.transaction.delete({ where: { id: transactionId } })
DeleteTransactionRow(rows, tid) == SelectSeq(rows, LAMBDA t : t.id # tid)

\* addTransaction; cap bounds the transactions ever created
AddTransaction(u, id, b, cap) ==
    /\ reply = NoStep
    /\ nextTid <= cap
    /\ IF FindFirstPortfolio(portfolios, id, u) = {}
       THEN /\ reply' = NotFoundFor("addTransaction", u, id)
            /\ UNCHANGED <<ledger, nextTid>>
       ELSE \E s \in FindManyAsc(ledger, id) :
            IF b.type = "SELL" /\ InsufficientShares(HoldingsOf(s), b)
            THEN /\ reply' = [kind |-> "addTransaction", status |-> 400,
                              userId |-> u, id |-> id]
                 /\ UNCHANGED <<ledger, nextTid>>
            ELSE /\ ledger' = Append(ledger, Row(b, id, nextTid))
                 /\ nextTid' = nextTid + 1
                 /\ reply' = [kind |-> "addTransaction", status |-> 201,
                              userId |-> u, id |-> id, transactionId |-> nextTid]
    /\ UNCHANGED <<watchVars, storeVars,
                   portfolios, nextPid, lookupRun, calcVars, txVars>>

GetTransactions(u, id) ==
    /\ reply = NoStep
    /\ IF FindFirstPortfolio(portfolios, id, u) = {}
       THEN reply' = NotFoundFor("getTransactions", u, id)
       ELSE \E s \in FindManyDesc(ledger, id) :
            reply' = [kind |-> "getTransactions", status |-> 200,
                      userId |-> u, id |-> id, transactions |-> s]
    /\ UNCHANGED <<watchVars, storeVars,
                   crudVars, lookupRun, ledger, calcVars, txVars>>

DeleteTransaction(u, id, tid) ==
    /\ reply = NoStep
    /\ IF FindFirstPortfolio(portfolios, id, u) = {}
            \/ FindFirstTransaction(ledger, tid, id) = {}
       THEN /\ reply' = [kind |-> "deleteTransaction", status |-> 404,
                         userId |-> u, id |-> id, transactionId |-> tid]
            /\ ledger' = ledger
       ELSE /\ ledger' = DeleteTransactionRow(ledger, tid)
            /\ reply' = [kind |-> "deleteTransaction", status |-> 200,
                         userId |-> u, id |-> id, transactionId |-> tid]
    /\ UNCHANGED <<watchVars, storeVars, crudVars, lookupRun, calcVars, txVars>>

\* getHoldings of the caller's portfolio id
GetHoldingsOf(u, id) ==
    /\ reply = NoStep
    /\ IF FindFirstPortfolio(portfolios, id, u) = {}
       THEN reply' = NotFoundFor("getHoldings", u, id)
       ELSE \E s \in FindManyAsc(ledger, id) :
            LET holdings == HoldingsOf(s)
            IN  \E first \in [Indices(holdings) -> CrudOutcomes] :
                \E second \in [Indices(holdings) -> CrudOutcomes] :
                LET totalValue == TotalValueLoop(holdings, first, 1)
                IN  reply' =
                      [kind |-> "getHoldings", status |-> 200,
                       userId |-> u, id |-> id,
                       holdings |-> EnrichHoldingsWithPrices(holdings, second, totalValue),
                       totalValue |-> totalValue]
    /\ UNCHANGED <<watchVars, storeVars,
                   crudVars, lookupRun, ledger, calcVars, txVars>>

\* getMetrics of the caller's portfolio id
GetMetricsOf(u, id) ==
    /\ reply = NoStep
    /\ IF FindFirstPortfolio(portfolios, id, u) = {}
       THEN reply' = NotFoundFor("getMetrics", u, id)
       ELSE \E s \in FindManyAsc(ledger, id) :
            LET holdings == HoldingsOf(s)
            IN  \E outcomes \in [Indices(holdings) -> CrudOutcomes] :
                reply' =
                  [kind |-> "getMetrics", status |-> 200,
                   userId |-> u, id |-> id,
                   metrics |-> CalculateMetrics(holdings, outcomes)]
    /\ UNCHANGED <<watchVars, storeVars,
                   crudVars, lookupRun, ledger, calcVars, txVars>>

\* getPortfolio of the caller's portfolio id: the row and its metrics
GetPortfolioOf(u, id) ==
    /\ reply = NoStep
    /\ IF FindFirstPortfolio(portfolios, id, u) = {}
       THEN reply' = NotFoundFor("getPortfolio", u, id)
       ELSE LET portfolio == CHOOSE p \in FindFirstPortfolio(portfolios, id, u) : TRUE
            IN  \E s \in FindManyAsc(ledger, id) :
                LET holdings == HoldingsOf(s)
                IN  \E outcomes \in [Indices(holdings) -> CrudOutcomes] :
                    reply' =
                      [kind |-> "getPortfolio", status |-> 200,
                       userId |-> u, id |-> id,
                       portfolio |-> portfolio,
                       metrics |-> CalculateMetrics(holdings, outcomes)]
    /\ UNCHANGED <<watchVars, storeVars,
                   crudVars, lookupRun, ledger, calcVars, txVars>>

NextCrud ==
    \/ \E u \in Users : \E b \in CreateBodies :
          CreatePortfolio(u, b, MaxCrudPortfolios)
    \/ \E u \in Users : \E id \in 1 .. MaxCrudPortfolios : \E b \in UpdateBodies :
          UpdatePortfolio(u, id, b)
    \/ \E u \in Users : \E id \in 1 .. MaxCrudPortfolios : DeletePortfolio(u, id)
    \/ \E u \in Users : GetPortfolios(u)
    \/ \E u \in Users : \E id \in 1 .. MaxCrudPortfolios : \E b \in CrudBodies :
          AddTransaction(u, id, b, MaxCrudTx)
    \/ \E u \in Users : \E id \in 1 .. MaxCrudPortfolios : GetTransactions(u, id)
    \/ \E u \in Users : \E id \in 1 .. MaxCrudPortfolios : \E tid \in 1 .. MaxCrudTx :
          DeleteTransaction(u, id, tid)
    \/ \E u \in Users : \E id \in 1 .. MaxCrudPortfolios : GetHoldingsOf(u, id)
    \/ \E u \in Users : \E id \in 1 .. MaxCrudPortfolios : GetMetricsOf(u, id)
    \/ \E u \in Users : \E id \in 1 .. MaxCrudPortfolios : GetPortfolioOf(u, id)
    \/ Deliver

SpecCrud == InitCrud /\ [][NextCrud]_vars

----------------------------------------------------------------------------
(* SpecRace: one createPortfolio or updatePortfolio request of each of two   *)
(* clients of the same user, one database call per step                      *)

MaxRacePortfolios == 2  \* portfolios the user has when the requests arrive

TheUser == "u1"

\* the user's rows before the requests: ids 1 .. n, at most one default (the
\* states requests handled one at a time can leave)
IsRaceStart(ps, n) ==
    \E d \in 0 .. n :
        ps = {PortfolioRow(i, TheUser, "a", i = d) : i \in 1 .. n}

InitRace ==
    /\ \E n \in 0 .. MaxRacePortfolios :
          /\ IsRaceStart(portfolios, n)
          /\ nextPid = n + 1
    /\ nextTid = 1
    /\ ledger = <<>>
    /\ CalcIdle
    /\ pc = [r \in Clients |-> "idle"]
    /\ body = [r \in Clients |-> NoBody]
    /\ resp = [r \in Clients |-> 0]
    /\ reply = NoStep
    /\ LookupIdle
    /\ WatchIdle
    /\ StoreIdle

\* createPortfolio arrives: if (body.isDefault) comes first
CreateBegin(r) ==
    /\ pc[r] = "idle" /\ resp[r] = 0
    /\ \E b \in CreateBodies :
          /\ body' = [body EXCEPT ![r] = [type |-> "create", data |-> b]]
          /\ pc' = [pc EXCEPT ![r] = IF b.isDefault THEN "unset" ELSE "write"]
    /\ UNCHANGED <<watchVars, storeVars, crudVars, lookupRun, ledger, calcVars,
                   resp, reply>>

\* updatePortfolio arrives and reads the row: findFirst({ where: { id, userId } })
UpdateBegin(r) ==
    /\ pc[r] = "idle" /\ resp[r] = 0
    /\ \E id \in 1 .. MaxRacePortfolios : \E b \in UpdateBodies :
          IF FindFirstPortfolio(portfolios, id, TheUser) = {}
          THEN /\ resp' = [resp EXCEPT ![r] = 404]
               /\ pc' = [pc EXCEPT ![r] = "done"]
               /\ body' = body
          ELSE /\ body' = [body EXCEPT ![r] =
                             [type |-> "update", id |-> id, data |-> b,
                              portfolio |->
                                  CHOOSE p \in FindFirstPortfolio(portfolios, id, TheUser) :
                                      TRUE]]
               /\ pc' = [pc EXCEPT ![r] = IF b.isDefault = Some(TRUE) THEN "unset"
                                          ELSE "write"]
               /\ resp' = resp
    /\ UNCHANGED <<watchVars, storeVars, crudVars, lookupRun, ledger, calcVars, reply>>

\* await prisma.portfolio.updateMany(...)
UnsetStep(r) ==
    /\ pc[r] = "unset"
    /\ portfolios' =
          IF body[r].type = "create" THEN UnsetDefaults(portfolios, TheUser)
          ELSE UnsetOtherDefaults(portfolios, TheUser, body[r].id)
    /\ pc' = [pc EXCEPT ![r] = "write"]
    /\ UNCHANGED <<watchVars, storeVars,
                   nextPid, nextTid, lookupRun, ledger, calcVars, body, resp, reply>>

\* await prisma.portfolio.create(...) or update(...), and the answer
WriteStep(r) ==
    /\ pc[r] = "write"
    /\ IF body[r].type = "create"
       THEN /\ portfolios' = InsertPortfolio(portfolios, TheUser, body[r].data, nextPid)
            /\ nextPid' = nextPid + 1
            /\ resp' = [resp EXCEPT ![r] = 201]
       ELSE /\ portfolios' =
                  UpdateRow(portfolios, body[r].id, body[r].data, body[r].portfolio)
            /\ nextPid' = nextPid
            /\ resp' = [resp EXCEPT ![r] = 200]
    /\ pc' = [pc EXCEPT ![r] = "done"]
    /\ UNCHANGED <<watchVars, storeVars,
                   nextTid, lookupRun, ledger, calcVars, body, reply>>

NextRace ==
    \E r \in Clients : CreateBegin(r) \/ UpdateBegin(r) \/ UnsetStep(r) \/ WriteStep(r)

SpecRace == InitRace /\ [][NextRace]_vars

----------------------------------------------------------------------------
(* SpecLookup: the getQuote calls of one getHoldings or getMetrics request,  *)
(* one call or one settled promise per step                                  *)

\* a getQuote call that has not settled yet
PendingCall(sym, stage) == [symbol |-> sym, stage |-> stage, state |-> "pending"]

Pending(calls) == {k \in Indices(calls) : calls[k].state = "pending"}

Settled(calls) == {k \in Indices(calls) : calls[k].state # "pending"}

SymbolsOf(holdings) == [i \in Indices(holdings) |-> holdings[i].symbol]

\* getHoldings after calculateHoldings: the totalValue loop is entered
StartHoldings ==
    /\ lookupRun = NoStep
    /\ \E s \in FindManyAsc(ledger, ThePortfolio) :
          lookupRun' = [kind |-> "getHoldings", stage |-> "loop",
                        symbols |-> SymbolsOf(HoldingsOf(s)), i |-> 1,
                        calls |-> <<>>]
    /\ UNCHANGED <<watchVars, storeVars,
                   crudVars, ledger, calcVars, txVars, reply>>

\* calculateMetrics after calculateHoldings: early return, or the loop
StartMetrics ==
    /\ lookupRun = NoStep
    /\ \E s \in FindManyAsc(ledger, ThePortfolio) :
          lookupRun' = [kind |-> "getMetrics",
                        stage |-> IF Len(HoldingsOf(s)) = 0 THEN "done" ELSE "loop",
                        symbols |-> SymbolsOf(HoldingsOf(s)), i |-> 1,
                        calls |-> <<>>]
    /\ UNCHANGED <<watchVars, storeVars,
                   crudVars, ledger, calcVars, txVars, reply>>

\* for (const holding of holdings) { ... finnhubClient.getQuote(holding.symbol)
LoopIssue ==
    /\ lookupRun # NoStep /\ lookupRun.stage = "loop"
    /\ lookupRun.i <= Len(lookupRun.symbols)
    /\ Pending(lookupRun.calls) = {}
    /\ lookupRun' =
          [lookupRun EXCEPT
              !.calls = Append(@, PendingCall(lookupRun.symbols[lookupRun.i], "loop"))]
    /\ UNCHANGED <<watchVars, storeVars,
                   crudVars, ledger, calcVars, txVars, reply>>

\* ... await: the promise resolves or rejects (catch), then the next iteration
LoopSettle ==
    /\ lookupRun # NoStep /\ lookupRun.stage = "loop"
    /\ Pending(lookupRun.calls) # {}
    /\ \E outcome \in {"resolved", "rejected"} :
          lookupRun' =
            [lookupRun EXCEPT !.calls[Len(lookupRun.calls)].state = outcome,
                              !.i = @ + 1]
    /\ UNCHANGED <<watchVars, storeVars,
                   crudVars, ledger, calcVars, txVars, reply>>

\* calculateMetrics: the loop is over, the totals are returned
MetricsReturn ==
    /\ lookupRun # NoStep /\ lookupRun.stage = "loop"
    /\ lookupRun.kind = "getMetrics"
    /\ lookupRun.i > Len(lookupRun.symbols)
    /\ lookupRun' = [lookupRun EXCEPT !.stage = "done"]
    /\ UNCHANGED <<watchVars, storeVars,
                   crudVars, ledger, calcVars, txVars, reply>>

\* enrichHoldingsWithPrices: holdings.map(async ...) calls getQuote for every
\* holding before Promise.all is awaited
EnrichIssue ==
    /\ lookupRun # NoStep /\ lookupRun.stage = "loop"
    /\ lookupRun.kind = "getHoldings"
    /\ lookupRun.i > Len(lookupRun.symbols)
    /\ lookupRun' =
          [lookupRun EXCEPT
              !.stage = "all",
              !.calls = @ \o [k \in Indices(lookupRun.symbols) |->
                                 PendingCall(lookupRun.symbols[k], "all")]]
    /\ UNCHANGED <<watchVars, storeVars,
                   crudVars, ledger, calcVars, txVars, reply>>

\* one of the promises under Promise.all resolves or rejects (its own catch)
EnrichSettle ==
    /\ lookupRun # NoStep /\ lookupRun.stage = "all"
    /\ \E k \in Pending(lookupRun.calls) : \E outcome \in {"resolved", "rejected"} :
          lookupRun' = [lookupRun EXCEPT !.calls[k].state = outcome]
    /\ UNCHANGED <<watchVars, storeVars,
                   crudVars, ledger, calcVars, txVars, reply>>

\* Promise.all resolves: enrichedHoldings is returned
EnrichReturn ==
    /\ lookupRun # NoStep /\ lookupRun.stage = "all"
    /\ Pending(lookupRun.calls) = {}
    /\ lookupRun' = [lookupRun EXCEPT !.stage = "done"]
    /\ UNCHANGED <<watchVars, storeVars,
                   crudVars, ledger, calcVars, txVars, reply>>

\* the response is sent
Respond ==
    /\ lookupRun # NoStep /\ lookupRun.stage = "done"
    /\ lookupRun' = NoStep
    /\ UNCHANGED <<watchVars, storeVars,
                   crudVars, ledger, calcVars, txVars, reply>>

NextLookup ==
    \/ StartHoldings \/ StartMetrics \/ LoopIssue \/ LoopSettle \/ MetricsReturn
    \/ EnrichIssue \/ EnrichSettle \/ EnrichReturn \/ Respond

SpecLookup == InitQuote /\ [][NextLookup]_vars

----------------------------------------------------------------------------
(* SpecLedger: addTransaction, deleteTransaction, getTransactions and        *)
(* deletePortfolio on the two portfolios of one user, one request at a time  *)

MaxLedgerTx == 3        \* transactions ever created in SpecLedger

LedgerPortfolios == {1, 2}

LedgerBodies ==
    [symbol : {"AAPL"}, type : Types, quantity : Quantities, price : {1},
     commission : {0}, transactionDate : {1}]

\* the user has created a default portfolio and then a second one
InitLedger ==
    /\ portfolios = {PortfolioRow(1, TheUser, "a", TRUE),
                     PortfolioRow(2, TheUser, "a", FALSE)}
    /\ nextPid = 3
    /\ nextTid = 1
    /\ ledger = <<>>
    /\ CalcIdle
    /\ TxIdle
    /\ reply = NoStep
    /\ LookupIdle
    /\ WatchIdle
    /\ StoreIdle

NextLedger ==
    \/ \E id \in LedgerPortfolios : \E b \in LedgerBodies :
          AddTransaction(TheUser, id, b, MaxLedgerTx)
    \/ \E id \in LedgerPortfolios : \E tid \in 1 .. MaxLedgerTx :
          DeleteTransaction(TheUser, id, tid)
    \/ \E id \in LedgerPortfolios : GetTransactions(TheUser, id)
    \/ \E id \in LedgerPortfolios : DeletePortfolio(TheUser, id)
    \/ Deliver

SpecLedger == InitLedger /\ [][NextLedger]_vars

----------------------------------------------------------------------------
(* SpecCase: addTransaction with the symbol as the client spells it; a       *)
(* string is the sequence of its characters                                  *)

MaxCaseTx == 3          \* transactions ever created in SpecCase

\* spellings of the tickers AB and BA
RawSymbols ==
    {<<"a", "b">>, <<"A", "b">>, <<"A", "B">>, <<"b", "a">>, <<"B", "A">>}

RawBodies ==
    [symbol : RawSymbols, type : Types, quantity : Quantities, price : {1},
     commission : {0}, transactionDate : {1}]

\* String.prototype.toUpperCase on one character
UpperOf(c) == CASE c = "a" -> "A" [] c = "b" -> "B" [] OTHER -> c

\* variant: the string is returned as it is
ToUpperCaseNoOp(str) == str

\* String.prototype.toUpperCase
ToUpperCase(str) == [k \in 1 .. Len(str) |-> UpperOf(str[k])]

\* the body the handler receives: as sent, or with the symbol already
\* transformed by AddTransactionSchema (z.string().toUpperCase())
ReceivedBodies(b) == {b, [b EXCEPT !.symbol = ToUpperCase(b.symbol)]}

\* addTransaction on a body as sent by the client
AddSpelled(u, id, sent, cap) ==
    /\ reply = NoStep
    /\ nextTid <= cap
    /\ IF FindFirstPortfolio(portfolios, id, u) = {}
       THEN /\ reply' = NotFoundFor("addTransaction", u, id)
            /\ UNCHANGED <<ledger, nextTid>>
       ELSE \E b \in ReceivedBodies(sent) : \E s \in FindManyAsc(ledger, id) :
            LET upper == [b EXCEPT !.symbol = ToUpperCase(b.symbol)]
            IN  IF b.type = "SELL" /\ InsufficientShares(HoldingsOf(s), upper)
                THEN /\ reply' = [kind |-> "addTransaction", status |-> 400,
                                  userId |-> u, id |-> id, body |-> sent]
                     /\ UNCHANGED <<ledger, nextTid>>
                ELSE /\ ledger' = Append(ledger, Row(upper, id, nextTid))
                     /\ nextTid' = nextTid + 1
                     /\ reply' = [kind |-> "addTransaction", status |-> 201,
                                  userId |-> u, id |-> id, body |-> sent,
                                  transactionId |-> nextTid]
    /\ UNCHANGED <<watchVars, storeVars,
                   portfolios, nextPid, lookupRun, calcVars, txVars>>

NextCase ==
    \/ \E id \in LedgerPortfolios : \E b \in RawBodies :
          AddSpelled(TheUser, id, b, MaxCaseTx)
    \/ \E id \in LedgerPortfolios : GetTransactions(TheUser, id)
    \/ Deliver

SpecCase == InitLedger /\ [][NextCase]_vars

----------------------------------------------------------------------------
(* SpecWatchlist: the watchlist handlers; a request is answered at once or   *)
(* waits between its findUnique and its create / delete, so two requests     *)
(* interleave at the awaits                                                  *)

MaxWatchRows == 3       \* watchlist rows ever created

WatchClients == {1, 2}

\* req.user?.id
Sessions == {Undefined} \cup {Some(u) : u \in Users}

\* the empty string, two spellings of the ticker A, and the ticker B
RawTickers == {<<>>, <<"a">>, <<"A">>, <<"b">>}

WatchRow(id, u, t) == [id |-> id, userId |-> u, ticker |-> t]

IdleRequest ==
    [pc |-> "idle", kind |-> "none", user |-> Undefined, ticker |-> <<>>,
     rowId |-> 0, status |-> 0]

Answered(kind, user, t, status) ==
    [pc |-> "done", kind |-> kind, user |-> user, ticker |-> t, rowId |-> 0,
     status |-> status]

\* ticker.trim() === ''
IsBlank(t) == \A k \in Indices(t) : t[k] = " "

\* variant: the ticker is used as it was sent
WatchKeyAsSent(t) == t

\* ticker: ticker.toUpperCase()
WatchKey(t) == ToUpperCase(t)

\* prisma.watchlist.findUnique({ where: { userId_ticker: { userId, ticker } } })
FindUniqueWatch(rows, u, t) ==
    {i \in Indices(rows) : rows[i].userId = u /\ rows[i].ticker = t}

\* creates that are waiting for their turn
PendingCreates == Cardinality({r \in WatchClients : watchReq[r].pc = "create"})

InitWatchlist ==
    /\ watchlist = <<>>
    /\ nextWid = 1
    /\ watchReq = [r \in WatchClients |-> IdleRequest]
    /\ ledger = <<>>
    /\ CalcIdle
    /\ TxIdle
    /\ reply = NoStep
    /\ CrudIdle
    /\ LookupIdle
    /\ StoreIdle

\* addToWatchlist up to the answer of findUnique
AddToWatchlist(r, user, t) ==
    /\ watchReq[r].pc = "idle"
    /\ nextWid + PendingCreates <= MaxWatchRows
    /\ watchReq' = [watchReq EXCEPT ![r] =
          IF user = Undefined THEN Answered("add", user, t, 401)
          ELSE IF t = <<>> \/ IsBlank(t) THEN Answered("add", user, t, 400)
          ELSE IF FindUniqueWatch(watchlist, user[1], WatchKey(t)) # {}
               THEN Answered("add", user, t, 409)
          ELSE [pc |-> "create", kind |-> "add", user |-> user, ticker |-> t,
                rowId |-> 0, status |-> 0]]
    /\ UNCHANGED <<watchlist, nextWid>>
    /\ UNCHANGED <<storeVars, crudVars, lookupRun, ledger, calcVars, txVars,
                   reply>>

\* await prisma.watchlist.create(...): the row is unique on (userId, ticker),
\* a second row with the key is refused and the handler's catch answers 500
CreateWatch(r) ==
    /\ watchReq[r].pc = "create"
    /\ LET q == watchReq[r]
           u == q.user[1]
       IN  IF FindUniqueWatch(watchlist, u, WatchKey(q.ticker)) # {}
           THEN /\ watchReq' = [watchReq EXCEPT ![r] =
                                    Answered("add", q.user, q.ticker, 500)]
                /\ UNCHANGED <<watchlist, nextWid>>
           ELSE /\ watchlist' = Append(watchlist,
                                       WatchRow(nextWid, u, WatchKey(q.ticker)))
                /\ nextWid' = nextWid + 1
                /\ watchReq' = [watchReq EXCEPT ![r] =
                                    Answered("add", q.user, q.ticker, 201)]
    /\ UNCHANGED <<storeVars, crudVars, lookupRun, ledger, calcVars, txVars,
                   reply>>

\* removeFromWatchlist up to the answer of findUnique
RemoveFromWatchlist(r, user, t) ==
    /\ watchReq[r].pc = "idle"
    /\ watchReq' = [watchReq EXCEPT ![r] =
          IF user = Undefined THEN Answered("remove", user, t, 401)
          ELSE IF t = <<>> THEN Answered("remove", user, t, 400)
          ELSE LET found == FindUniqueWatch(watchlist, user[1], WatchKey(t))
               IN  IF found = {}
                   THEN Answered("remove", user, t, 404)
                   ELSE [pc |-> "delete", kind |-> "remove", user |-> user,
                         ticker |-> t,
                         rowId |-> watchlist[CHOOSE i \in found : TRUE].id,
                         status |-> 0]]
    /\ UNCHANGED <<watchlist, nextWid>>
    /\ UNCHANGED <<storeVars, crudVars, lookupRun, ledger, calcVars, txVars,
                   reply>>

\* await prisma.watchlist.delete({ where: { id } }): deleting a row that is
\* gone throws, and the handler's catch answers 500
DeleteWatch(r) ==
    /\ watchReq[r].pc = "delete"
    /\ LET q == watchReq[r]
           kept == SelectSeq(watchlist, LAMBDA w : w.id # q.rowId)
       IN  IF kept = watchlist
           THEN /\ watchReq' = [watchReq EXCEPT ![r] =
                                    Answered("remove", q.user, q.ticker, 500)]
                /\ UNCHANGED watchlist
           ELSE /\ watchlist' = kept
                /\ watchReq' = [watchReq EXCEPT ![r] =
                                    Answered("remove", q.user, q.ticker, 200)]
    /\ UNCHANGED nextWid
    /\ UNCHANGED <<storeVars, crudVars, lookupRun, ledger, calcVars, txVars,
                   reply>>

\* clearWatchlist: prisma.watchlist.deleteMany({ where: { userId } })
ClearWatchlist(r, user) ==
    /\ watchReq[r].pc = "idle"
    /\ IF user = Undefined
       THEN /\ watchReq' = [watchReq EXCEPT ![r] =
                                Answered("clear", user, <<>>, 401)]
            /\ UNCHANGED watchlist
       ELSE /\ watchlist' = SelectSeq(watchlist, LAMBDA w : w.userId # user[1])
            /\ watchReq' = [watchReq EXCEPT ![r] =
                                Answered("clear", user, <<>>, 200)]
    /\ UNCHANGED nextWid
    /\ UNCHANGED <<storeVars, crudVars, lookupRun, ledger, calcVars, txVars,
                   reply>>

\* the answer is sent; the connection takes the next request
SendAnswer(r) ==
    /\ watchReq[r].pc = "done"
    /\ watchReq' = [watchReq EXCEPT ![r] = IdleRequest]
    /\ UNCHANGED <<watchlist, nextWid>>
    /\ UNCHANGED <<storeVars, crudVars, lookupRun, ledger, calcVars, txVars,
                   reply>>

NextWatchlist ==
    \E r \in WatchClients :
        \/ \E user \in Sessions : \E t \in RawTickers : AddToWatchlist(r, user, t)
        \/ CreateWatch(r)
        \/ \E user \in Sessions : \E t \in RawTickers :
               RemoveFromWatchlist(r, user, t)
        \/ DeleteWatch(r)
        \/ \E user \in Sessions : ClearWatchlist(r, user)
        \/ SendAnswer(r)

SpecWatchlist == InitWatchlist /\ [][NextWatchlist]_vars

----------------------------------------------------------------------------
(* SpecStore: the web client's watchlist store; a helper updates the store,  *)
(* awaits its server call and rolls back when the call throws, so helpers    *)
(* and initializeWatchlist interleave at the awaits                          *)

HelperCalls == {1, 2}       \* helper calls in flight at once
InitCalls == {1, 2, 3}      \* calls of initializeWatchlist

\* symbols as the components pass them: spellings of the tickers A and B
StoreSymbols == {<<"a">>, <<"A">>, <<"b">>}

StoreTickers == {ToUpperCase(t) : t \in StoreSymbols}

\* status of the response to a helper's request; 0: fetch itself rejected
AddStatuses == {0, 201, 409, 500}
RemoveStatuses == {0, 200, 404, 500}
ClearStatuses == {0, 200, 500}

\* response.ok
Ok(status) == status \in 200 .. 299

\* watchlistAPI.addTicker throws
AddTickerThrows(status) == status = 0 \/ (status # 409 /\ ~Ok(status))

\* watchlistAPI.removeTicker throws
RemoveTickerThrows(status) == status = 0 \/ ~Ok(status)

\* watchlistAPI.clearWatchlist throws
ClearWatchlistThrows(status) == status = 0 \/ ~Ok(status)

\* what watchlistAPI.fetchWatchlist resolves to: the tickers of the response,
\* or [] when the request failed (it catches every error)
FetchWatchlist(response) ==
    IF response.status # 0 /\ Ok(response.status) THEN response.tickers ELSE {}

FetchResponses == [status : {0, 200, 500}, tickers : SUBSET StoreTickers]

IdleHelper ==
    [pc |-> "idle", kind |-> "none", ticker |-> <<>>, backup |-> {},
     before |-> {}, alone |-> FALSE]

\* a helper call c starts: before is the items set it found, alone says that
\* nothing else has written the store since; the calls in flight are no
\* longer alone
Started(c, kind, t, backup) ==
    [d \in HelperCalls |->
        IF d = c
        THEN [pc |-> "called", kind |-> kind, ticker |-> t, backup |-> backup,
              before |-> watchlistStore.items,
              alone |-> \A e \in HelperCalls : helperRun[e].pc = "idle"]
        ELSE [helperRun[d] EXCEPT !.alone = FALSE]]

\* variant: the guard looks at isInitialized only
InitGuardWithoutLoading(state) == state.isInitialized

\* if (watchlistStore.state.isInitialized || watchlistStore.state.isLoading)
InitGuard(state) == state.isInitialized \/ state.isLoading

InitStore ==
    /\ watchlistStore = NewStore
    /\ helperRun = [c \in HelperCalls |-> IdleHelper]
    /\ initRun = [c \in InitCalls |-> "idle"]
    /\ fetches = 0
    /\ ledger = <<>>
    /\ CalcIdle
    /\ TxIdle
    /\ reply = NoStep
    /\ CrudIdle
    /\ LookupIdle
    /\ WatchIdle

\* initializeWatchlist up to its await
InitializeWatchlist(c) ==
    /\ initRun[c] = "idle"
    /\ IF InitGuard(watchlistStore)
       THEN /\ initRun' = [initRun EXCEPT ![c] = "returned"]
            /\ UNCHANGED <<watchlistStore, fetches>>
       ELSE /\ watchlistStore' = [watchlistStore EXCEPT !.isLoading = TRUE]
            /\ fetches' = fetches + 1
            /\ initRun' = [initRun EXCEPT ![c] = "fetching"]
    /\ UNCHANGED helperRun
    /\ UNCHANGED <<watchVars, crudVars, lookupRun, ledger, calcVars, txVars,
                   reply>>

\* fetchWatchlist resolves (it never rejects, so the catch of
\* initializeWatchlist is not taken)
InitializeDone(c, response) ==
    /\ initRun[c] = "fetching"
    /\ watchlistStore' = [items |-> FetchWatchlist(response),
                          isLoading |-> FALSE, isInitialized |-> TRUE]
    /\ initRun' = [initRun EXCEPT ![c] = "done"]
    /\ helperRun' = [d \in HelperCalls |-> [helperRun[d] EXCEPT !.alone = FALSE]]
    /\ UNCHANGED fetches
    /\ UNCHANGED <<watchVars, crudVars, lookupRun, ledger, calcVars, txVars,
                   reply>>

\* watchlistHelpers.add up to its await
HelperAdd(c, symbol) ==
    /\ helperRun[c].pc = "idle"
    /\ LET uppercased == ToUpperCase(symbol)
       IN  /\ watchlistStore' = [watchlistStore EXCEPT
                                    !.items = @ \cup {uppercased}]
           /\ helperRun' = Started(c, "add", uppercased, {})
    /\ UNCHANGED <<initRun, fetches>>
    /\ UNCHANGED <<watchVars, crudVars, lookupRun, ledger, calcVars, txVars,
                   reply>>

\* watchlistHelpers.remove up to its await
HelperRemove(c, symbol) ==
    /\ helperRun[c].pc = "idle"
    /\ LET uppercased == ToUpperCase(symbol)
       IN  /\ watchlistStore' = [watchlistStore EXCEPT
                                    !.items = @ \ {uppercased}]
           /\ helperRun' = Started(c, "remove", uppercased, {})
    /\ UNCHANGED <<initRun, fetches>>
    /\ UNCHANGED <<watchVars, crudVars, lookupRun, ledger, calcVars, txVars,
                   reply>>

\* watchlistHelpers.clear up to its await
HelperClear(c) ==
    /\ helperRun[c].pc = "idle"
    /\ watchlistStore' = [watchlistStore EXCEPT !.items = {}]
    /\ helperRun' = Started(c, "clear", <<>>, watchlistStore.items)
    /\ UNCHANGED <<initRun, fetches>>
    /\ UNCHANGED <<watchVars, crudVars, lookupRun, ledger, calcVars, txVars,
                   reply>>

\* the items after the catch block of helper call h
RolledBack(h, items) ==
    CASE h.kind = "add" -> items \ {h.ticker}
      [] h.kind = "remove" -> items \cup {h.ticker}
      [] h.kind = "clear" -> h.backup

\* the server call of a helper resolves
HelperResolves(c, status) ==
    /\ helperRun[c].pc = "called"
    /\ \/ helperRun[c].kind = "add" /\ status \in AddStatuses
                /\ ~AddTickerThrows(status)
       \/ helperRun[c].kind = "remove" /\ status \in RemoveStatuses
                /\ ~RemoveTickerThrows(status)
       \/ helperRun[c].kind = "clear" /\ status \in ClearStatuses
                /\ ~ClearWatchlistThrows(status)
    /\ helperRun' = [helperRun EXCEPT ![c].pc = "resolved"]
    /\ UNCHANGED <<watchlistStore, initRun, fetches>>
    /\ UNCHANGED <<watchVars, crudVars, lookupRun, ledger, calcVars, txVars,
                   reply>>

\* the server call of a helper throws: the catch block, then throw error
HelperRollsBack(c, status) ==
    /\ helperRun[c].pc = "called"
    /\ \/ helperRun[c].kind = "add" /\ status \in AddStatuses
                /\ AddTickerThrows(status)
       \/ helperRun[c].kind = "remove" /\ status \in RemoveStatuses
                /\ RemoveTickerThrows(status)
       \/ helperRun[c].kind = "clear" /\ status \in ClearStatuses
                /\ ClearWatchlistThrows(status)
    /\ watchlistStore' = [watchlistStore EXCEPT
                             !.items = RolledBack(helperRun[c], @)]
    /\ helperRun' = [d \in HelperCalls |->
                        IF d = c THEN [helperRun[c] EXCEPT !.pc = "rejected"]
                        ELSE [helperRun[d] EXCEPT !.alone = FALSE]]
    /\ UNCHANGED <<initRun, fetches>>
    /\ UNCHANGED <<watchVars, crudVars, lookupRun, ledger, calcVars, txVars,
                   reply>>

\* the caller has seen the helper's promise settle
HelperSettled(c) ==
    /\ helperRun[c].pc \in {"resolved", "rejected"}
    /\ helperRun' = [helperRun EXCEPT ![c] = IdleHelper]
    /\ UNCHANGED <<watchlistStore, initRun, fetches>>
    /\ UNCHANGED <<watchVars, crudVars, lookupRun, ledger, calcVars, txVars,
                   reply>>

AllStatuses == AddStatuses \cup RemoveStatuses \cup ClearStatuses

NextStore ==
    \/ \E c \in InitCalls : InitializeWatchlist(c)
    \/ \E c \in InitCalls : \E response \in FetchResponses :
          InitializeDone(c, response)
    \/ \E c \in HelperCalls : \E symbol \in StoreSymbols : HelperAdd(c, symbol)
    \/ \E c \in HelperCalls : \E symbol \in StoreSymbols : HelperRemove(c, symbol)
    \/ \E c \in HelperCalls : HelperClear(c)
    \/ \E c \in HelperCalls : \E status \in AllStatuses : HelperResolves(c, status)
    \/ \E c \in HelperCalls : \E status \in AllStatuses : HelperRollsBack(c, status)
    \/ \E c \in HelperCalls : HelperSettled(c)

SpecStore == InitStore /\ [][NextStore]_vars

----------------------------------------------------------------------------
(* Quantities read off the ledger directly, without replaying it *)

RECURSIVE SumQty(_, _, _)
\* sum of the quantities of the rows of one symbol and type
SumQty(rows, sym, type) ==
    IF rows = <<>> THEN 0
    ELSE (IF Head(rows).symbol = sym /\ Head(rows).type = type
          THEN Head(rows).quantity ELSE 0)
         + SumQty(Tail(rows), sym, type)

BoughtQty(rows, sym) == SumQty(rows, sym, "BUY")

SoldQty(rows, sym) == SumQty(rows, sym, "SELL")

RECURSIVE BoughtCost(_, _)
\* sum of quantity * price + commission over the BUY rows of one symbol
BoughtCost(rows, sym) ==
    IF rows = <<>> THEN 0
    ELSE (IF Head(rows).symbol = sym /\ Head(rows).type = "BUY"
          THEN Head(rows).quantity * Head(rows).price + Head(rows).commission
          ELSE 0)
         + BoughtCost(Tail(rows), sym)

NetQty(rows, sym) == BoughtQty(rows, sym) - SoldQty(rows, sym)

HasSymbol(hs, sym) == \E i \in Indices(hs) : hs[i].symbol = sym

EntryOf(hs, sym) == hs[CHOOSE i \in Indices(hs) : hs[i].symbol = sym]

\* the one findMany result that breaks ties of transactionDate by creation order
CreationOrderSort(rows, pid) ==
    CHOOSE s \in FindManyAsc(rows, pid) :
        \A i \in Indices(s) : \A j \in Indices(s) :
            (i < j /\ s[i].transactionDate = s[j].transactionDate)
                => s[i].id < s[j].id

----------------------------------------------------------------------------
(* Claims on calculateHoldings (SpecCalc) *)

\* C3: calculateHoldings returns no holding with quantity <= 0, and a symbol
\* whose SELLs add up to at least its BUYs (a position sold out in full) is
\* absent from the returned list.
C3_NoEmptyHolding ==
    phase = "done" =>
        /\ \A i \in Indices(result) : result[i].quantity > 0
        /\ \A sym \in Symbols :
              NetQty(ledger, sym) <= 0 => ~HasSymbol(result, sym)

\* a SELL of exactly the held quantity was the last step replayed
C3_Witness ==
    /\ phase = "done"
    /\ last.kind = "SELL"
    /\ last.existing.quantity > 0
    /\ last.tx.quantity = last.existing.quantity
    /\ last.stored.quantity = 0
    /\ ~HasSymbol(result, last.tx.symbol)

\* C4 (as claimed): the holdings returned for a ledger are those of the replay
\* in ascending transactionDate with ties in creation order, on every request.
C4_ReplayInCreationOrder ==
    phase = "done" =>
        LET expected == HoldingsOf(CreationOrderSort(ledger, ThePortfolio))
        IN  {result[i] : i \in Indices(result)}
                = {expected[i] : i \in Indices(expected)}

\* C5: on a ledger of BUYs only, every bought symbol is held with quantity =
\* sum of the BUY quantities and totalCost = sum of quantity * price +
\* commission, and averageCost * quantity = totalCost, in any replay order.
C5_BuyOnlyTotals ==
    (phase = "done" /\ \A i \in Indices(ledger) : ledger[i].type = "BUY") =>
        \A sym \in Symbols :
            BoughtQty(ledger, sym) > 0 =>
                /\ HasSymbol(result, sym)
                /\ LET h == EntryOf(result, sym)
                   IN  /\ h.quantity = BoughtQty(ledger, sym)
                       /\ h.totalCost = RInt(BoughtCost(ledger, sym))
                       /\ h.averageCost.n * h.quantity
                              = h.totalCost.n * h.averageCost.d
                       /\ h.totalCost.d = 1

\* two BUYs of one symbol at different prices, one with a commission
C5_Witness ==
    /\ phase = "done"
    /\ Len(ledger) = 2
    /\ \A i \in Indices(ledger) : ledger[i].type = "BUY"
    /\ ledger[1].symbol = ledger[2].symbol
    /\ ledger[1].price # ledger[2].price
    /\ ledger[1].commission # ledger[2].commission
    /\ Len(result) = 1
    /\ result[1].quantity = ledger[1].quantity + ledger[2].quantity

SpecExampleBuy ==
    [id |-> 1, portfolioId |-> ThePortfolio, symbol |-> "AAPL", type |-> "BUY",
     quantity |-> 10, price |-> 100, commission |-> 0, transactionDate |-> 1]

SpecExampleSell ==
    [id |-> 2, portfolioId |-> ThePortfolio, symbol |-> "AAPL", type |-> "SELL",
     quantity |-> 4, price |-> 120, commission |-> 0, transactionDate |-> 2]

\* C6: a SELL with commission 0 of fewer shares than are held keeps the
\* position's average cost and stores totalCost = previous average cost *
\* remaining quantity, whatever its price; BUY 10 at 100 then SELL 4 at 120
\* gives quantity 6, totalCost 600, averageCost 100.
C6_SellKeepsAverageCost ==
    /\ (last.kind = "SELL" /\ last.tx.commission = 0
            /\ last.tx.quantity < last.existing.quantity) =>
        LET q == last.existing.quantity
            c == last.existing.totalCost
            rest == q - last.tx.quantity
        IN  /\ last.stored.quantity = rest
            \* stored.totalCost = (c / q) * rest
            /\ last.stored.totalCost.n * c.d * q
                   = c.n * rest * last.stored.totalCost.d
    /\ HoldingsOf(<<SpecExampleBuy, SpecExampleSell>>)
           = <<[symbol |-> "AAPL", quantity |-> 6, averageCost |-> RInt(100),
                totalCost |-> RInt(600)]>>

\* a partial SELL without commission, at a price other than the BUY's
C6_Witness ==
    /\ phase = "done"
    /\ last.kind = "SELL" /\ last.tx.commission = 0
    /\ last.tx.quantity < last.existing.quantity
    /\ last.existing.totalCost # Zero
    /\ \E i \in Indices(ledger) :
          /\ ledger[i].type = "BUY" /\ ledger[i].symbol = last.tx.symbol
          /\ ledger[i].price # last.tx.price
    /\ HasSymbol(result, last.tx.symbol)

\* C7: every SELL step stores quantity - tx.quantity and
\* max(0, avgCost * newQuantity - tx.commission), where avgCost is
\* totalCost / quantity when quantity > 0 and 0 otherwise.
C7_SellStepFormula ==
    last.kind = "SELL" =>
        LET q == last.existing.quantity
            c == last.existing.totalCost
            newQ == q - last.tx.quantity
            \* avgCost * newQ - commission = num / den, den > 0
            num == IF q > 0 THEN c.n * newQ - last.tx.commission * c.d * q
                   ELSE -last.tx.commission
            den == IF q > 0 THEN c.d * q ELSE 1
            t == last.stored.totalCost
        IN  /\ last.stored.quantity = newQ
            /\ IF num > 0 THEN t.n * den = num * t.d ELSE t = Zero

\* a SELL with a commission out of a held position, leaving cost basis behind
C7_Witness ==
    /\ last.kind = "SELL"
    /\ last.existing.quantity > last.tx.quantity
    /\ last.tx.commission > 0
    /\ last.stored.totalCost # Zero
    /\ RLess(last.stored.totalCost,
             RMul(RDiv(last.existing.totalCost, RInt(last.existing.quantity)),
                  RInt(last.stored.quantity)))

\* a SELL replayed against an empty position (the avgCost = 0 branch)
C7_WitnessEmpty ==
    /\ last.kind = "SELL"
    /\ last.existing.quantity <= 0
    /\ last.stored.totalCost = Zero

----------------------------------------------------------------------------
(* Claims on addTransaction (SpecTx) *)

Others(r) == Clients \ {r}

\* C1: with no other request in flight, a SELL for more than the quantity held
\* of its symbol (none held included) is answered 400 and the ledger is left
\* as it was; this holds of every such request, so of every repetition too.
C1_OversellRejected ==
    [][\A r \in Clients :
          (/\ pc[r] = "validate" /\ pc'[r] # "validate"
           /\ \A o \in Others(r) : pc[o] = "idle" /\ pc'[o] = "idle"
           /\ body[r].quantity > NetQty(ledger, body[r].symbol))
          => (resp'[r] = 400 /\ pc'[r] = "idle" /\ ledger' = ledger)]_vars

\* the same oversized SELL of a held symbol was rejected twice on one ledger
C1_Witness ==
    /\ \A r \in Clients : pc[r] = "idle" /\ resp[r] = 400
    /\ body["c1"] = body["c2"]
    /\ NetQty(ledger, body["c1"].symbol) > 0
    /\ body["c1"].quantity > NetQty(ledger, body["c1"].symbol)

\* C2: a SELL that has passed the holdings check is inserted whatever the
\* ledger has become since, so two concurrent SELLs that each fit the held
\* quantity are both inserted and can leave more sold than bought.
C2_CheckedSellIsInserted ==
    [][\A r \in Clients :
          (pc[r] = "create" /\ pc'[r] # "create")
          => /\ ledger' = Append(ledger, Row(body[r], ThePortfolio, Len(ledger) + 1))
             /\ resp'[r] = 201]_vars

\* both SELLs were answered 201 and the symbol is oversold
C2_Witness ==
    /\ \A r \in Clients : pc[r] = "idle" /\ resp[r] = 201 /\ body[r].type = "SELL"
    /\ body["c1"].symbol = body["c2"].symbol
    /\ LET sym == body["c1"].symbol
       IN  /\ SoldQty(ledger, sym) > BoughtQty(ledger, sym)
           /\ body["c1"].quantity <= BoughtQty(ledger, sym)
           /\ body["c2"].quantity <= BoughtQty(ledger, sym)
           /\ SoldQty(ledger, sym) = body["c1"].quantity + body["c2"].quantity

----------------------------------------------------------------------------
(* Claims on getHoldings / getMetrics / getPortfolio (SpecQuote) *)

RECURSIVE SumField(_, _, _)
\* sum of one field (a rational) over the entries i .. Len(hs) of a holdings list
SumField(hs, field, i) ==
    IF i > Len(hs) THEN Zero ELSE RAdd(hs[i][field], SumField(hs, field, i + 1))

HeldSymbols(rows) == {sym \in Symbols : NetQty(rows, sym) > 0}

\* C8 (as claimed): in every 200 response of getHoldings the portfolioWeight
\* values sum to 100 whenever the currentValue values sum to more than 0, and
\* to 0 when there are no holdings, whatever each lookup returned.
C8_WeightsSumTo100 ==
    (reply.kind = "getHoldings" /\ reply.status = 200) =>
        /\ RLess(Zero, SumField(reply.holdings, "currentValue", 1))
              => SumField(reply.holdings, "portfolioWeight", 1) = RInt(100)
        /\ Len(reply.holdings) = 0
              => SumField(reply.holdings, "portfolioWeight", 1) = Zero

\* C9: a holding whose lookup fails is returned with currentPrice 0,
\* currentValue 0, gainLoss = -totalCost, gainLossPercent = -100 and
\* portfolioWeight 0; the answer is 200 with one entry per held symbol, and
\* every other entry's price, value and gain come from its own quote.
C9_FailedLookupDegrades ==
    (reply.kind = "getHoldings" /\ reply.status # 404) =>
        /\ reply.status = 200
        /\ Len(reply.holdings) = Cardinality(HeldSymbols(ledger))
        /\ \A sym \in HeldSymbols(ledger) : HasSymbol(reply.holdings, sym)
        /\ \A i \in Indices(reply.holdings) :
            LET e == reply.holdings[i]
                o == reply.outcomes[i]
            IN  /\ e.quantity = NetQty(ledger, e.symbol)
                /\ IF ~o.ok
                   THEN /\ e.currentPrice = Zero
                        /\ e.currentValue = Zero
                        /\ e.gainLoss.n = -e.totalCost.n
                        /\ e.gainLoss.d = e.totalCost.d
                        /\ e.gainLossPercent = RInt(-100)
                        /\ e.portfolioWeight = Zero
                   ELSE /\ e.currentPrice = RInt(o.c)
                        /\ e.currentValue = RInt(o.c * e.quantity)
                        /\ e.gainLoss = RSub(e.currentValue, e.totalCost)
                        /\ e.totalCost # Zero =>
                              /\ IsFinite(e.gainLossPercent)
                              \* gainLossPercent * totalCost = gainLoss * 100
                              /\ e.gainLossPercent.n * e.totalCost.n * e.gainLoss.d
                                     = e.gainLoss.n * 100 * e.gainLossPercent.d
                                           * e.totalCost.d

\* two holdings, one lookup failed, the other answered a price above 0
C9_Witness ==
    /\ reply.kind = "getHoldings" /\ reply.status = 200
    /\ Len(reply.holdings) = 2
    /\ ~reply.outcomes[1].ok
    /\ reply.outcomes[2].ok /\ reply.outcomes[2].c > 0
    /\ reply.holdings[1].gainLoss # Zero
    /\ reply.holdings[2].currentValue # Zero

\* C10: for a portfolio without transactions getHoldings answers an empty
\* list and getMetrics / getPortfolio answer all-zero metrics, and no quote
\* lookup is issued.
C10_EmptyPortfolio ==
    (reply.kind # "none" /\ reply.status = 200
            /\ OfPortfolio(ledger, ThePortfolio) = <<>>) =>
        /\ reply.lookups = 0
        /\ reply.kind = "getHoldings" => reply.holdings = <<>>
        /\ reply.kind \in {"getMetrics", "getPortfolio"} =>
              \A f \in {"totalValue", "totalCost", "totalGainLoss",
                        "totalGainLossPercent", "dayChange", "dayChangePercent"} :
                  reply.metrics[f] = Zero

\* getMetrics answered for the empty ledger
C10_Witness ==
    /\ ledger = <<>>
    /\ reply.kind = "getMetrics" /\ reply.status = 200
    /\ reply.metrics = ZeroMetrics
    /\ reply.lookups = 0

RECURSIVE AcceptedPrefix(_, _)
\* the first k rows were each accepted by addTransaction, one request at a
\* time: a SELL passed the guard on some replay of the rows before it
AcceptedPrefix(rows, k) ==
    \/ k = 0
    \/ /\ AcceptedPrefix(rows, k - 1)
       /\ rows[k].type = "SELL" =>
              \E s \in FindManyAsc(SubSeq(rows, 1, k - 1), rows[k].portfolioId) :
                  ~InsufficientShares(HoldingsOf(s), rows[k])

AcceptedLedger(rows) == AcceptedPrefix(rows, Len(rows))

\* C12 (as claimed): in every getHoldings response over a ledger that
\* addTransaction accepted row by row, the division that computes
\* gainLossPercent has a divisor other than 0: every holding priced from a
\* quote has totalCost # 0 and a finite gainLossPercent.
C12_GainLossPercentDivisorNonZero ==
    (reply.kind = "getHoldings" /\ reply.status = 200 /\ AcceptedLedger(ledger)) =>
        \A i \in Indices(reply.holdings) :
            reply.outcomes[i].ok =>
                /\ reply.holdings[i].totalCost # Zero
                /\ IsFinite(reply.holdings[i].gainLossPercent)

\* C13: every metrics result has totalGainLoss = totalValue - totalCost,
\* totalGainLossPercent = 0 when totalCost = 0 and dayChangePercent = 0 when
\* totalValue - dayChange <= 0; both percentages are finite, and one that is
\* not 0 was divided by a value above 0.
C13_MetricsGuarded ==
    (reply.kind \in {"getMetrics", "getPortfolio"} /\ reply.status = 200) =>
        LET m == reply.metrics
            previous == RSub(m.totalValue, m.dayChange)
        IN  /\ m.totalGainLoss = RSub(m.totalValue, m.totalCost)
            /\ m.totalCost = Zero => m.totalGainLossPercent = Zero
            /\ ~RLess(Zero, previous) => m.dayChangePercent = Zero
            /\ IsFinite(m.totalGainLossPercent)
            /\ IsFinite(m.dayChangePercent)
            /\ m.totalGainLossPercent # Zero => RLess(Zero, m.totalCost)
            /\ m.dayChangePercent # Zero => RLess(Zero, previous)

\* metrics of a held position whose previous total value is 0 while its day
\* change is not
C13_Witness ==
    /\ reply.kind = "getMetrics" /\ reply.status = 200
    /\ Len(reply.held) > 0
    /\ reply.metrics.dayChange # Zero
    /\ RSub(reply.metrics.totalValue, reply.metrics.dayChange) = Zero
    /\ reply.metrics.dayChangePercent = Zero

----------------------------------------------------------------------------
(* Claims on the agreement of getMetrics with getHoldings (SpecAgree) *)

\* C14 (as claimed): on the same ledger and the same outcome of each symbol's
\* lookup, the metrics of getMetrics are the sums over the holdings of
\* getHoldings: totalCost = sum of totalCost, totalValue = sum of
\* currentValue, totalGainLoss = sum of gainLoss (a failed lookup counts its
\* totalCost and a currentValue of 0).
C14_MetricsAgreeWithHoldings ==
    reply.kind = "both" =>
        /\ reply.metrics.totalCost = SumField(reply.holdings, "totalCost", 1)
        /\ reply.metrics.totalValue = SumField(reply.holdings, "currentValue", 1)
        /\ reply.metrics.totalGainLoss = SumField(reply.holdings, "gainLoss", 1)

----------------------------------------------------------------------------
(* Claims on the default portfolio (SpecPortfolio) *)

\* C11 (as claimed): after any sequence of createPortfolio, updatePortfolio
\* and deletePortfolio requests, every user with at least one portfolio has
\* exactly one portfolio with isDefault = true.
C11_ExactlyOneDefault ==
    \A u \in Users :
        PortfoliosOf(portfolios, u) # {} =>
            Cardinality(DefaultsOf(portfolios, u)) = 1

\* C17: with requests handled one at a time, no user has more than one
\* portfolio with isDefault = true.
C17_AtMostOneDefault ==
    \A u \in Users : Cardinality(DefaultsOf(portfolios, u)) <= 1

\* a portfolio was just created as the default while its user had an earlier
\* portfolio; the new one is the user's only default
C17_Witness ==
    /\ reply.kind = "createPortfolio" /\ reply.body.isDefault
    /\ DefaultsOf(portfolios, reply.userId)
           = {PortfolioRow(reply.id, reply.userId, reply.body.name, TRUE)}
    /\ \E p \in PortfoliosOf(portfolios, reply.userId) :
           p.id < reply.id /\ ~p.isDefault
    /\ Cardinality(PortfoliosOf(portfolios, reply.userId)) = 2
    /\ \A p \in portfolios : p.userId = reply.userId

\* C19: a successful deletePortfolio of the default portfolio leaves the
\* user's remaining portfolio of earliest createdAt (if any) with isDefault =
\* true; a successful deletePortfolio of a portfolio that was not the default
\* leaves the isDefault of every remaining portfolio as it was.
C19_DeletePromotesEarliest ==
    [][(reply = NoStep /\ reply'.kind = "deletePortfolio" /\ reply'.status = 200) =>
          LET deleted == reply'.portfolio
              rest == PortfoliosOf(portfolios', deleted.userId)
          IN  /\ deleted \in portfolios
              /\ \A q \in portfolios' : q.id # deleted.id
              /\ IF deleted.isDefault
                 THEN rest # {} =>
                        \E p \in rest :
                            /\ p.isDefault
                            /\ \A q \in rest : p.createdAt <= q.createdAt
                 ELSE \A q \in portfolios' :
                        \E p \in portfolios : p.id = q.id /\ p.isDefault = q.isDefault
      ]_vars

\* the default was deleted while its user kept two portfolios; the earlier of
\* them is now the default and the later is not
C19_Witness ==
    /\ reply.kind = "deletePortfolio" /\ reply.status = 200
    /\ reply.portfolio.isDefault
    /\ Cardinality(PortfoliosOf(portfolios, reply.userId)) = 2
    /\ \E p \in PortfoliosOf(portfolios, reply.userId) :
       \E q \in PortfoliosOf(portfolios, reply.userId) :
           /\ p.createdAt < q.createdAt
           /\ reply.portfolio.createdAt < p.createdAt
           /\ p.isDefault /\ ~q.isDefault

----------------------------------------------------------------------------
(* Claims on the not-found answers (SpecCrud) *)

IdOps ==
    {"getPortfolio", "updatePortfolio", "deletePortfolio", "addTransaction",
     "getTransactions", "deleteTransaction", "getHoldings", "getMetrics"}

\* C15: a request that names a portfolio id is answered 404 when the caller
\* has no portfolio of that id, deleteTransaction is answered 404 when the
\* portfolio has no transaction of the given id, and a request answered 404
\* leaves every portfolio and every transaction as it was.
C15_NotFoundChangesNothing ==
    [][(reply = NoStep /\ reply'.kind \in IdOps) =>
          LET noPortfolio ==
                  ~\E p \in portfolios :
                      p.id = reply'.id /\ p.userId = reply'.userId
              noTransaction ==
                  /\ reply'.kind = "deleteTransaction"
                  /\ ~\E i \in Indices(ledger) :
                        /\ ledger[i].id = reply'.transactionId
                        /\ ledger[i].portfolioId = reply'.id
          IN  /\ (noPortfolio \/ noTransaction) => reply'.status = 404
              /\ reply'.status = 404 =>
                    /\ portfolios' = portfolios
                    /\ ledger' = ledger
                    /\ noPortfolio \/ noTransaction
      ]_vars

\* a user asked to delete a transaction of another user's portfolio: 404, and
\* the transaction is still in the ledger
C15_Witness ==
    /\ reply.kind = "deleteTransaction" /\ reply.status = 404
    /\ \E p \in portfolios : p.id = reply.id /\ p.userId # reply.userId
    /\ \E i \in Indices(ledger) :
          ledger[i].id = reply.transactionId /\ ledger[i].portfolioId = reply.id

----------------------------------------------------------------------------
(* Claims on concurrent default-setting requests (SpecRace) *)

\* the request of client r sets isDefault = true
SetsDefault(r) ==
    \/ body[r].type = "create" /\ body[r].data.isDefault
    \/ body[r].type = "update" /\ body[r].data.isDefault = Some(TRUE)

\* the requests of the two clients write different portfolios
DifferentPortfolios ==
    \A r \in Clients : \A q \in Clients \ {r} :
        (body[r].type = "update" /\ body[q].type = "update")
            => body[r].id # body[q].id

\* C18 (as claimed): when two requests of the same user that each set
\* isDefault = true on different portfolios have run concurrently to their
\* answers, the user has at most one portfolio with isDefault = true.
C18_ConcurrentDefaultUnique ==
    (/\ \A r \in Clients : pc[r] = "done" /\ resp[r] \in {200, 201} /\ SetsDefault(r)
     /\ DifferentPortfolios)
        => Cardinality(DefaultsOf(portfolios, TheUser)) <= 1

----------------------------------------------------------------------------
(* Claims on addTransaction handled one at a time (SpecSeq) *)

\* C20: with requests handled one at a time and no transaction deleted, after
\* any sequence of addTransaction requests (of any transactionDate) the SELL
\* quantities of every symbol add up to at most its BUY quantities.
C20_NeverOversold ==
    \A sym \in Symbols : SoldQty(ledger, sym) <= BoughtQty(ledger, sym)

\* a position was sold out by a SELL dated before its BUY, and a SELL asked
\* after that was answered 400
C20_Witness ==
    /\ InFlight = {}
    /\ \E r \in Clients : resp[r] = 400
    /\ \E i \in Indices(ledger) : \E j \in Indices(ledger) :
          /\ i < j
          /\ ledger[i].type = "BUY" /\ ledger[j].type = "SELL"
          /\ ledger[i].symbol = ledger[j].symbol
          /\ ledger[j].transactionDate < ledger[i].transactionDate
          /\ SoldQty(ledger, ledger[i].symbol) = BoughtQty(ledger, ledger[i].symbol)

----------------------------------------------------------------------------
(* Claims on the order of the quote lookups (SpecLookup) *)

\* C16 (as claimed): within one getHoldings or getMetrics request no lookup
\* is started after another lookup of the request has completed: a step that
\* issues a getQuote call is taken only while no call of the request has
\* settled.
C16_LookupsFanOut ==
    [][(lookupRun # NoStep /\ lookupRun' # NoStep
            /\ Len(lookupRun'.calls) > Len(lookupRun.calls))
          => Settled(lookupRun.calls) = {}
      ]_vars

----------------------------------------------------------------------------
(* Claims on addTransaction and deleteTransaction together (SpecLedger) *)

\* C21 (as claimed): with requests handled one at a time, after any sequence
\* of addTransaction and deleteTransaction requests on a portfolio the SELL
\* quantities of every symbol add up to at most its BUY quantities.
C21_DeleteNeverOversells ==
    \A id \in LedgerPortfolios : \A sym \in Symbols :
        SoldQty(OfPortfolio(ledger, id), sym) <= BoughtQty(OfPortfolio(ledger, id), sym)

----------------------------------------------------------------------------
(* Claims on the replay of accepted ledgers (SpecCalc) *)

\* C22 (as claimed): for a ledger that addTransaction accepted row by row,
\* at every step of the replay in ascending transactionDate (ties in creation
\* order) the running quantity of every symbol is >= 0, and a SELL is only
\* replayed against a position of more than 0 shares.
C22_RunningQuantityNonNegative ==
    (/\ phase # "start"
     /\ AcceptedLedger(ledger)
     /\ sorted = CreationOrderSort(ledger, ThePortfolio)) =>
        /\ \A i \in Indices(acc) : acc[i].quantity >= 0
        /\ last.kind = "SELL" => last.existing.quantity > 0

----------------------------------------------------------------------------
(* Claims on the replay in any order (SpecReplay) *)

\* the rows replayed so far
Replayed == SubSeq(sorted, 1, pos - 1)

\* C23: in whatever order the transactions are replayed, the quantity that
\* calculateHoldings accumulates for a symbol is the sum of its BUY quantities
\* minus the sum of its SELL quantities, at every step and in the result.
C23_QuantityIsOrderFree ==
    phase # "start" =>
        /\ \A sym \in Symbols :
              MapGet(acc, sym).quantity = NetQty(Replayed, sym)
        /\ phase = "done" =>
              /\ Replayed = sorted
              /\ \A sym \in Symbols :
                    /\ NetQty(ledger, sym) = NetQty(sorted, sym)
                    /\ HasSymbol(result, sym) <=> NetQty(ledger, sym) > 0
                    /\ HasSymbol(result, sym) =>
                          EntryOf(result, sym).quantity = NetQty(ledger, sym)

\* a replay that is not in creation order and starts with a SELL returned a
\* holding
C23_Witness ==
    /\ phase = "done"
    /\ sorted # ledger
    /\ sorted[1].type = "SELL"
    /\ HasSymbol(result, sorted[1].symbol)
    /\ EntryOf(result, sorted[1].symbol).quantity = NetQty(ledger, sorted[1].symbol)

\* C24: in any replay order, also when a running quantity is negative, every
\* accumulator entry has totalCost >= 0 and every returned holding has
\* totalCost >= 0 and averageCost >= 0.
C24_CostNeverNegative ==
    /\ \A i \in Indices(acc) : ~RLess(acc[i].totalCost, Zero)
    /\ phase = "done" =>
          \A i \in Indices(result) :
              /\ ~RLess(result[i].totalCost, Zero)
              /\ IsFinite(result[i].averageCost)
              /\ ~RLess(result[i].averageCost, Zero)

\* a BUY was replayed onto a negative running quantity and the position is
\* returned as a holding
C24_Witness ==
    /\ phase = "done"
    /\ last.kind = "BUY"
    /\ last.existing.quantity < 0
    /\ last.stored.quantity > 0
    /\ HasSymbol(result, last.tx.symbol)

----------------------------------------------------------------------------
(* Claims on the separation of users (SpecCrud) *)

\* the transactions of the portfolios in ps that do not belong to user a
TransactionsOfOthers(rows, ps, a) ==
    SelectSeq(rows, LAMBDA t :
        \E p \in ps : p.id = t.portfolioId /\ p.userId # a)

\* C25: a request of user A leaves the portfolios (with their isDefault) and
\* the transactions of every other user as they were and returns none of
\* them: naming a portfolio of another user is answered 404, getPortfolios
\* lists only A's portfolios, and getPortfolio / getTransactions answer with
\* A's own rows.
C25_UsersAreSeparated ==
    [][(reply = NoStep /\ reply' # NoStep) =>
          LET a == reply'.userId
          IN  /\ {p \in portfolios : p.userId # a} = {p \in portfolios' : p.userId # a}
              /\ TransactionsOfOthers(ledger', portfolios, a)
                     = TransactionsOfOthers(ledger, portfolios, a)
              /\ (/\ reply'.kind \in IdOps
                  /\ \E p \in portfolios : p.id = reply'.id /\ p.userId # a)
                     => reply'.status = 404
              /\ reply'.kind = "getPortfolios" =>
                    \A i \in Indices(reply'.portfolios) :
                        reply'.portfolios[i].userId = a
              /\ (reply'.kind = "getPortfolio" /\ reply'.status = 200) =>
                    reply'.portfolio.userId = a
              /\ (reply'.kind = "getTransactions" /\ reply'.status = 200) =>
                    \A i \in Indices(reply'.transactions) :
                        \E p \in portfolios :
                            /\ p.id = reply'.transactions[i].portfolioId
                            /\ p.userId = a
      ]_vars

\* a user asked to update the default portfolio of another user, which holds
\* a transaction: 404, and the portfolio is still that user's default
C25_Witness ==
    /\ reply.kind = "updatePortfolio" /\ reply.status = 404
    /\ \E p \in portfolios :
          p.id = reply.id /\ p.userId # reply.userId /\ p.isDefault
    /\ \E i \in Indices(ledger) : ledger[i].portfolioId = reply.id
    /\ PortfoliosOf(portfolios, reply.userId) # {}

----------------------------------------------------------------------------
(* Claims on the rows deleteTransaction touches (SpecLedger) *)

RowsOf(rows) == {rows[i] : i \in Indices(rows)}

\* C26: a successful deleteTransaction removes exactly the transaction of
\* the given id, which belongs to the portfolio named in the request; every
\* other transaction stays with all its fields, and no request changes a
\* field of an existing transaction (a row of the ledger after a request is
\* a row from before it, or the row addTransaction has just created).
C26_DeleteRemovesExactlyOne ==
    [][(reply = NoStep /\ reply' # NoStep) =>
          /\ (reply'.kind = "deleteTransaction" /\ reply'.status = 200) =>
                \E t \in RowsOf(ledger) :
                    /\ t.id = reply'.transactionId
                    /\ t.portfolioId = reply'.id
                    /\ ledger' = SelectSeq(ledger, LAMBDA x : x # t)
                    /\ Len(ledger') = Len(ledger) - 1
          /\ \A t \in RowsOf(ledger') :
                \/ t \in RowsOf(ledger)
                \/ /\ reply'.kind = "addTransaction" /\ reply'.status = 201
                   /\ t.id = reply'.transactionId
                   /\ \A x \in RowsOf(ledger) : x.id # t.id
          /\ ~(\/ reply'.kind = "deleteTransaction" /\ reply'.status = 200
               \/ reply'.kind = "deletePortfolio" /\ reply'.status = 200) =>
                \A t \in RowsOf(ledger) : t \in RowsOf(ledger')
      ]_vars

\* a transaction was deleted from a portfolio that keeps another one, while
\* the user's other portfolio holds a transaction too
C26_Witness ==
    /\ reply.kind = "deleteTransaction" /\ reply.status = 200
    /\ \A t \in RowsOf(ledger) : t.id # reply.transactionId
    /\ \E t \in RowsOf(ledger) : t.portfolioId = reply.id
    /\ \E t \in RowsOf(ledger) : t.portfolioId # reply.id

----------------------------------------------------------------------------
(* Claims on the letter case of symbols (SpecCase) *)

LowerCaseLetters == {"a", "b"}

\* two characters that are the same letter
SameLetter(c, d) == c = d \/ {c, d} \in {{"a", "A"}, {"b", "B"}}

\* two spellings of the same ticker
SameTicker(x, y) ==
    Len(x) = Len(y) /\ \A k \in 1 .. Len(x) : SameLetter(x[k], y[k])

RECURSIVE HeldSpelled(_, _)
\* BUY quantity minus SELL quantity over the rows of a ticker, however spelled
HeldSpelled(rows, ticker) ==
    IF rows = <<>> THEN 0
    ELSE (IF SameTicker(Head(rows).symbol, ticker)
          THEN (IF Head(rows).type = "BUY" THEN Head(rows).quantity
                ELSE -Head(rows).quantity)
          ELSE 0)
         + HeldSpelled(Tail(rows), ticker)

\* no stored symbol has a lower-case letter
AllUpperCase(rows) ==
    \A i \in Indices(rows) : \A k \in 1 .. Len(rows[i].symbol) :
        rows[i].symbol[k] \notin LowerCaseLetters

\* C27: every transaction stored by addTransaction has an upper-case symbol,
\* and requests that spell a ticker in any letter case act on one position:
\* a SELL is accepted exactly when its quantity is at most the position of
\* the ticker over all spellings, and an accepted request moves that position
\* by its quantity.
C27_SymbolsAreUpperCased ==
    [][(reply = NoStep /\ reply'.kind = "addTransaction" /\ reply'.status # 404) =>
          LET b == reply'.body
              mine == OfPortfolio(ledger, reply'.id)
              after == OfPortfolio(ledger', reply'.id)
          IN  /\ AllUpperCase(ledger')
              /\ b.type = "SELL" =>
                    (reply'.status = 201 <=> b.quantity <= HeldSpelled(mine, b.symbol))
              /\ b.type = "BUY" => reply'.status = 201
              /\ reply'.status = 201 =>
                    HeldSpelled(after, b.symbol) =
                        HeldSpelled(mine, b.symbol)
                            + (IF b.type = "BUY" THEN b.quantity ELSE -b.quantity)
              /\ reply'.status # 201 => ledger' = ledger
      ]_vars

\* a SELL spelled in lower case was accepted against a position bought under
\* another spelling
C27_Witness ==
    /\ reply.kind = "addTransaction" /\ reply.status = 201
    /\ reply.body.type = "SELL"
    /\ reply.body.symbol = <<"a", "b">>
    /\ \E i \in Indices(ledger) :
          /\ ledger[i].type = "BUY" /\ ledger[i].symbol = <<"A", "B">>
          /\ ledger[i].portfolioId = reply.id
    /\ \E i \in Indices(ledger) :
          /\ ledger[i].id = reply.transactionId
          /\ ledger[i].symbol = <<"A", "B">>

\* the user u already watches ticker t, in whatever letter case t is spelled
Watches(rows, u, t) ==
    \E i \in Indices(rows) :
        rows[i].userId = u /\ SameTicker(rows[i].ticker, t)

\* C28: a user's watchlist never holds a ticker twice and holds it in upper
\* case; addToWatchlist for a ticker the user already watches (in any letter
\* case) answers 409 and leaves the table as it is, and removeFromWatchlist
\* for a ticker the user does not watch answers 404 and leaves the table as
\* it is.
C28_WatchlistHoldsTickerOnce ==
    [][/\ \A i, j \in Indices(watchlist') :
            (/\ watchlist'[i].userId = watchlist'[j].userId
             /\ SameTicker(watchlist'[i].ticker, watchlist'[j].ticker)) => i = j
       /\ \A i \in Indices(watchlist') :
            \A k \in Indices(watchlist'[i].ticker) :
                watchlist'[i].ticker[k] \notin LowerCaseLetters
       /\ \A r \in WatchClients :
            LET q == watchReq'[r]
            IN  (/\ watchReq[r].pc = "idle" /\ q.pc # "idle"
                 /\ q.user # Undefined /\ q.ticker # <<>>) =>
                  /\ (q.kind = "add" /\ Watches(watchlist, q.user[1], q.ticker))
                        => (q.pc = "done" /\ q.status = 409
                               /\ watchlist' = watchlist)
                  /\ (q.kind = "remove"
                            /\ ~Watches(watchlist, q.user[1], q.ticker))
                        => (q.pc = "done" /\ q.status = 404
                               /\ watchlist' = watchlist)]_vars

\* one request was refused with 409 for a lower-case spelling of a watched
\* ticker while another was refused with 404 for a ticker not watched
C28_Witness ==
    \E r, q \in WatchClients :
        /\ watchReq[r].kind = "add" /\ watchReq[r].status = 409
        /\ watchReq[r].ticker = <<"a">>
        /\ Watches(watchlist, watchReq[r].user[1], <<"A">>)
        /\ watchReq[q].kind = "remove" /\ watchReq[q].status = 404
        /\ watchReq[q].ticker = <<"b">>
        /\ watchReq[q].user = watchReq[r].user

\* C29: when the server call of watchlistHelpers.add, remove or clear fails
\* and nothing else wrote the store since the helper was called, the items
\* set after the rollback equals the items set the helper was called with.
C29_RollbackRestoresItems ==
    [][\A c \in HelperCalls :
          (/\ helperRun[c].pc = "called" /\ helperRun'[c].pc = "rejected"
           /\ helperRun[c].alone)
            => watchlistStore'.items = helperRun[c].before]_vars

\* C30: initializeWatchlist fetches the watchlist at most once however its
\* calls overlap, isLoading and isInitialized are never both true, and from
\* the moment the fetching call has completed the store has isLoading = false
\* and isInitialized = true.
C30_InitializesOnce ==
    /\ fetches <= 1
    /\ ~(watchlistStore.isLoading /\ watchlistStore.isInitialized)
    /\ (\E c \in InitCalls : initRun[c] = "done") =>
          (~watchlistStore.isLoading /\ watchlistStore.isInitialized)

\* one call fetched and completed, a call made during the fetch and a call
\* made after it both returned at the guard, and a helper has since failed
\* and rolled back
C30_Witness ==
    /\ initRun[1] = "done"
    /\ initRun[2] = "returned"
    /\ initRun[3] = "returned"
    /\ fetches = 1
    /\ \E c \in HelperCalls : helperRun[c].pc = "rejected"
====
